---- MODULE Spec2Model ----
(***************************************************************************)
(* A model of Reqon's scan orchestration.                                  *)
(*                                                                         *)
(*   ReconFramework (src/unnamed/part_000, 64-690): the React component    *)
(*     whose startFullRecon handler runs the five modules in sequence,     *)
(*     appends timeline entries and sets the progress percentage.          *)
(*   OSINTSearch (src/unnamed/part_000, 712-1054): the component whose     *)
(*     handleSearch handler calls OSINTService.performReconnaissance.      *)
(*   OSINTService (src/src/services/OSINTService.ts, 37-572): the batched  *)
(*     query runner with its progress callback and process-wide cache.     *)
(*                                                                         *)
(* JavaScript runs one callback at a time, so every action below is one    *)
(* synchronous segment of a handler: from its invocation (or from the      *)
(* settling of the promise it awaits) to its next await or its return.     *)
(*                                                                         *)
(* The two components hold separate React state; the variable "mounted"    *)
(* says which of them (or a direct caller of the exported OSINTService     *)
(* class) the behaviour is about.  Timestamps and elapsed times of the     *)
(* timeline entries are not modelled.                                      *)
(*                                                                         *)
(* Spec is the program; FairSpec adds that awaited promises settle and     *)
(* timers fire.  CacheSpec starts the service with a cache that earlier    *)
(* searches have filled, SessionSpec with a cache that an invocation with  *)
(* other parameters has filled; DedupSpec and QuerySpec apply              *)
(* deduplicateResults and generateSearchQueries on their own to bounded    *)
(* inputs.                                                                 *)
(*                                                                         *)
(*   usePerformanceOptimization (src/src/services/                         *)
(*     SocialEngineeringService.ts, 606-743): the hook's batchProcessor    *)
(*     (BatchSpec, and BatchFairSpec in which processor promises settle),  *)
(*     advancedDebounce (DebounceSpec) and memoizeWithTTL (MemoSpec).      *)
(***************************************************************************)
EXTENDS Integers, Sequences, FiniteSets, TLC

(***************************************************************************)
(* Bounds of the model.                                                    *)
(***************************************************************************)
\* Number of edits of the target fields and of the scan configuration that
\* the user makes in one behaviour (the configuration and the target that a
\* behaviour starts with are arbitrary).
MaxEdits == 1

\* Number of performReconnaissance invocations in one behaviour.
MaxRuns == 1

\* batchProcessor: the longest items list, the largest batchSize and the
\* largest concurrent it is called with.
MaxItems == 4

MaxBatchSize == 2

MaxConcurrent == 3

\* advancedDebounce: the delay the function is wrapped with (in steps of
\* the clock), the number of calls of the wrapper and the last instant of
\* the clock in one behaviour.
DebounceDelay == 2

MaxCalls == 4

MaxClock == 6

\* memoizeWithTTL: the number of calls of the memoized function and the
\* number of steps of the clock in one behaviour.
MaxMemoCalls == 3

MaxMemoTicks == 2

\* Number of steps of the clock in one behaviour.
MaxTicks == 1

\* Longest list of profiles deduplicateResults is applied to on its own.
MaxProfiles == 3

\* The batch size performReconnaissance passes to createBatches (BATCH_SIZE,
\* 25 in the code).
BatchSize == 2

(***************************************************************************)
(* OSINTService: constants of the class.                                   *)
(***************************************************************************)
\* CACHE_TTL, in milliseconds
CACHE_TTL == 300000

\* if (this.cache.size > 2000)
CACHE_MAX_SIZE == 2000

\* Array.from(this.cache.keys()).slice(0, 500)
CACHE_EVICT_COUNT == 500

\* A step of the clock: half the cache's time to live.
TickMs == CACHE_TTL \div 2

\* (queryIndex % 5) * 20: the queries of a batch whose index is a multiple of
\* five start without a stagger delay.
STAGGER_GROUP == 5

(***************************************************************************)
(* ReconFramework: constants of the component.                             *)
(***************************************************************************)
\* The module blocks of startFullRecon, in the order of the code.
ModuleIds == <<"osint", "network", "webApp", "socialEngineering", "infrastructure">>

ModuleSet == {ModuleIds[i] : i \in 1..Len(ModuleIds)}

\* The modifier flags of scanConfig.
ModifierFlags == {"deepScan", "stealth", "aggressive"}

\* Every key of the scanConfig object.
ConfigKeys == ModuleSet \cup ModifierFlags

\* The module name startFullRecon writes into the timeline entries.
TimelineName(m) ==
    CASE m = "osint" -> "OSINT"
      [] m = "network" -> "Network"
      [] m = "webApp" -> "WebApp"
      [] m = "socialEngineering" -> "SocialEng"
      [] m = "infrastructure" -> "Infrastructure"

\* The label startFullRecon passes to setActiveModule.
ModuleTitle(m) ==
    CASE m = "osint" -> "OSINT Collection"
      [] m = "network" -> "Network Enumeration"
      [] m = "webApp" -> "Web Application Analysis"
      [] m = "socialEngineering" -> "Social Engineering Intel"
      [] m = "infrastructure" -> "Infrastructure Profiling"

\* The message of the Error with which a module's service rejects: every
\* service wraps its body in try/catch and throws a new Error.
ServiceErrorMessage(m) ==
    CASE m = "osint" -> "Reconnaissance operation failed"
      [] m = "network" -> "Network reconnaissance failed"
      [] m = "webApp" -> "Web application analysis failed"
      [] m = "socialEngineering" -> "Social engineering intelligence gathering failed"
      [] m = "infrastructure" -> "Infrastructure profiling failed"

\* Values typed into the two target fields ("" is the empty field).
Domains == {"", "example.com"}

Companies == {"", "Example Corp"}

\* The error an unexpected exception of the toast collaborator carries.
ToastError == "toast error"

VARIABLES
    mounted,          \* which component the behaviour is about
    edits,            \* number of UI edits made so far (bounded by MaxEdits)
    \* ---- ReconFramework: React state
    target,           \* [domain, company]
    scanConfig,       \* [ConfigKeys -> BOOLEAN]
    isScanning,
    activeModule,
    progress,         \* a percentage, the fraction [num, den] in lowest terms
    results,          \* [ModuleSet -> BOOLEAN]: a module's output is stored
    timeline,         \* results.timeline
    \* ---- ReconFramework: the running startFullRecon invocation
    pc,               \* "idle" | "await" (suspended at a module's await)
    current,          \* the module whose service call is awaited
    runTarget,        \* the target captured by the handler's closure
    runConfig,        \* the scanConfig captured by the handler's closure
    serviceCalls,     \* the service calls the invocation has made, in order
    totalModules,     \* const totalModules
    completedModules, \* let completedModules
    lastEnd,          \* "none" | "missing" | "running" | "completed" | "caught"
    toastShown,       \* title of the toast the last invocation showed ("": none)
    consoleError,     \* the error the last invocation logged by console.error
    \* ---- OSINTSearch: React state
    searchParams,     \* [company, domain, searchType] (sources and format are not read)
    isSearching,
    searchResults,    \* the results state
    searchStats,      \* [total, processed, found]
    realTimeProgress, \* a percentage
    \* ---- OSINTSearch: the handleSearch invocation
    searchEnd,        \* "none" | "missing" | "running" | "completed" | "caught"
    searchToast,      \* title of the toast the last invocation showed
    searchConsoleError, \* the error the last invocation logged by console.error
    \* ---- OSINTService
    run,              \* the locals of the performReconnaissance invocation
    cache,            \* the static cache, in insertion order
    now,              \* Date.now()
    runsStarted,      \* number of performReconnaissance invocations so far
    \* ---- OSINTService.deduplicateResults applied on its own
    dedupArg,         \* the list it is first applied to
    dedupRet,         \* the lists its applications returned, in order
    \* ---- OSINTService.generateSearchQueries applied on its own
    queryArg,         \* [company, domain]
    queryRet,         \* [SearchTypes -> the list returned for the type, <<>>: not called]
    \* ---- usePerformanceOptimization (SocialEngineeringService.ts, 606-743)
    batchRun,         \* the locals of the batchProcessor invocation
    debounce,         \* debounceTimers.current, the clock and the calls made
    memo              \* memoCache.current, the clock and the last call

reconVars == <<target, scanConfig, isScanning, activeModule, progress, results,
               timeline, pc, current, runTarget, runConfig, serviceCalls,
                   totalModules,
               completedModules, lastEnd, toastShown, consoleError>>

searchVars == <<searchParams, isSearching, searchResults, searchStats,
                realTimeProgress, searchEnd, searchToast, searchConsoleError>>

serviceVars == <<run, cache, now, runsStarted>>

pureVars == <<dedupArg, dedupRet, queryArg, queryRet, batchRun, debounce, memo>>

vars == <<mounted, edits, reconVars, searchVars, serviceVars, pureVars>>

(***************************************************************************)
(* Percentages.  (completedModules / totalModules) * 100 is kept as an     *)
(* exact fraction.                                                         *)
(***************************************************************************)
RECURSIVE GCD(_, _)
GCD(a, b) == IF b = 0 THEN a ELSE GCD(b, a % b)

Pct(n, d) == LET g == GCD(n, d) IN [num |-> n \div g, den |-> d \div g]

PctLeq(p, q) == p.num * q.den <= q.num * p.den

Zero == Pct(0, 1)

Hundred == Pct(100, 1)

(***************************************************************************)
(* ReconFramework: helpers of startFullRecon.                              *)
(***************************************************************************)
NoTarget == [domain |-> "", company |-> ""]

NoConfig == [k \in ConfigKeys |-> FALSE]

EmptyResults == [m \in ModuleSet |-> FALSE]

\* const totalModules = Object.values(scanConfig).filter(Boolean).length
TotalModules(cfg) == Cardinality({k \in ConfigKeys : cfg[k]})

\* A faulty variant of ModuleProgress: the share of the modules still to
\* run, (totalModules - completedModules) / totalModules * 100.
ModuleProgressRemaining(completed, total) == Pct((total - completed) * 100, total)

\* (completedModules / totalModules) * 100
ModuleProgress(completed, total) == Pct(completed * 100, total)

\* One timeline entry: { module, status, data }.
TimelineEntry(module, status, data) ==
    [module |-> module, status |-> status, data |-> data]

NullData == [kind |-> "null"]

\* A faulty variant of SelectedFrom: every module block runs, whatever its
\* flag (the if (scanConfig.<module>) tests left out).
SelectedFromAll(cfg, i) == i..Len(ModuleIds)

\* The positions, in ModuleIds, of the module blocks at or after position i
\* whose flag is set.
SelectedFrom(cfg, i) == {j \in i..Len(ModuleIds) : cfg[ModuleIds[j]]}

Min(S) == CHOOSE x \in S : \A y \in S : x <= y

ModuleIndex(m) == CHOOSE i \in 1..Len(ModuleIds) : ModuleIds[i] = m

\* The entry the catch block of a module appends: the error's message.
FailedEntry(m) ==
    TimelineEntry(TimelineName(m), "FAILED", [kind |-> "error", error |-> ServiceErrorMessage(m)])

\* The entry appended after a module's service resolved.
CompletedEntry(m) ==
    TimelineEntry(TimelineName(m), "COMPLETED", [kind |-> "summary"])

\* A faulty variant of TimelineAfterModule: the COMPLETED entry is appended
\* after the try/catch of the module block instead of inside the try, so a
\* failed module gets both entries.
TimelineAfterModuleBoth(tl, m, ok) ==
    IF ok THEN Append(tl, CompletedEntry(m))
    ELSE Append(Append(tl, FailedEntry(m)), CompletedEntry(m))

\* A faulty variant of TimelineAfterModule: the module's RUNNING entry is
\* replaced by its final entry instead of being followed by it.
TimelineAfterModuleInPlace(tl, m, ok) ==
    [tl EXCEPT ![Len(tl)] = IF ok THEN CompletedEntry(m) ELSE FailedEntry(m)]

\* The timeline after the awaited service of module m has settled.
TimelineAfterModule(tl, m, ok) ==
    Append(tl, IF ok THEN CompletedEntry(m) ELSE FailedEntry(m))

\* The arguments of the service call of module m that depend on the target
\* and the configuration the handler reads (lines 186-192, 210-216, 237-243,
\* 264-269 and 290-296): the domain, the company where the service is given
\* it, and the option taken from a modifier flag.
ServiceCall(m, tgt, cfg) ==
    [module |-> m,
     domain |-> tgt.domain,
     company |-> IF m \in {"osint", "socialEngineering"} THEN tgt.company ELSE "",
     option |-> CASE m = "osint" -> IF cfg["deepScan"] THEN "deep" ELSE "basic"
                  [] m \in {"network", "webApp"} ->
                       IF cfg["aggressive"] THEN "aggressive" ELSE "normal"
                  [] OTHER -> ""]

\* A faulty variant of CapturedTarget: the continuation reads the target
\* state as it is when the module is called (as through a ref).
LiveTarget == target

\* The target a continuation of startFullRecon reads: the constant of the
\* render in which the handler was created, i.e. the state at the click.
CapturedTarget == runTarget

(***************************************************************************)
(* The rest of the try block from module position i on, for the captured   *)
(* configuration cfg, with the timeline tl, the counter completed, the     *)
(* progress value prog and the stored outputs res reached so far: either   *)
(* the next selected module is started and the handler suspends at its     *)
(* await, or the run is finished (lines 312-334).  toast is a collaborator *)
(* outside the repository and may throw: throws1 is the outcome of the     *)
(* completion toast, throws2 that of the toast in the catch block.         *)
(***************************************************************************)
\* A faulty variant of FinishRun: the state is reset at the end of the try
\* block instead of in a finally block, so the catch path leaves it as it is.
FinishRunNoFinally(tl, completed, shown, throws1, throws2) ==
    /\ timeline' = Append(tl, TimelineEntry("Framework", "COMPLETED",
                              [kind |-> "done", modulesRun |-> completed]))
    /\ progress' = Hundred
    /\ IF ~throws1
       THEN /\ toastShown' = "Reconnaissance Complete"
            /\ lastEnd' = "completed"
            /\ consoleError' = ""
            /\ isScanning' = FALSE
            /\ activeModule' = ""
       ELSE /\ consoleError' = ToastError
            /\ toastShown' = IF throws2 THEN shown ELSE "Reconnaissance Failed"
            /\ lastEnd' = "caught"
            /\ isScanning' = TRUE
            /\ activeModule' = ""
    /\ pc' = "idle"
    /\ current' = ""

FinishRun(tl, completed, shown, throws1, throws2) ==
    \* lines 312-317
    /\ timeline' = Append(tl, TimelineEntry("Framework", "COMPLETED",
                              [kind |-> "done", modulesRun |-> completed]))
    /\ progress' = Hundred
    /\ IF ~throws1
       THEN \* lines 319-322
            /\ toastShown' = "Reconnaissance Complete"
            /\ lastEnd' = "completed"
            /\ consoleError' = ""
       ELSE \* catch (error), lines 324-330
            /\ consoleError' = ToastError
            /\ toastShown' = IF throws2 THEN shown ELSE "Reconnaissance Failed"
            /\ lastEnd' = "caught"
    \* finally, lines 331-334
    /\ isScanning' = FALSE
    /\ activeModule' = ""
    /\ pc' = "idle"
    /\ current' = ""

ContinueRun(cfg, tgt, calls, tl, completed, prog, res, i, shown) ==
    /\ results' = res
    /\ completedModules' = completed
    /\ IF SelectedFrom(cfg, i) # {}
       THEN LET m == ModuleIds[Min(SelectedFrom(cfg, i))] IN
            /\ activeModule' = ModuleTitle(m)
            /\ serviceCalls' = Append(calls, ServiceCall(m, tgt, cfg))
            /\ timeline' = Append(tl, TimelineEntry(TimelineName(m), "RUNNING", NullData))
            /\ current' = m
            /\ pc' = "await"
            /\ isScanning' = TRUE
            /\ progress' = prog
            /\ lastEnd' = "running"
            /\ toastShown' = shown
            /\ consoleError' = ""
       ELSE /\ serviceCalls' = calls
            /\ \E throws1 \in BOOLEAN, throws2 \in BOOLEAN :
                 FinishRun(tl, completed, shown, throws1, throws2)

\* A faulty variant of TargetMissing: only the domain is tested.
DomainMissing(t) == t.domain = ""

\* if (!target.domain || !target.company), line 139
TargetMissing(t) == t.domain = "" \/ t.company = ""

\* A button that stays enabled while a run is under way.
StartNeverDisabled == FALSE

\* disabled={isScanning || ...} of the button whose onClick is startFullRecon,
\* line 520: the button, the only caller of the handler, is disabled while
\* isScanning.
StartDisabledByScan == isScanning

(***************************************************************************)
(* startFullRecon, from its invocation to its first await or its return.   *)
(* The button that invokes it is disabled while isScanning and while a     *)
(* target field is empty (line 520).  The handler is not invoked while a   *)
(* scan is running: it has no test of its own for that.  An empty target   *)
(* field is left to the test the handler does have (line 139), so that an  *)
(* invocation the button would not have allowed is covered as well.        *)
(***************************************************************************)
StartFullRecon ==
    /\ mounted = "ReconFramework"
    /\ ~StartDisabledByScan
    /\ IF TargetMissing(target)
       THEN /\ toastShown' = "Missing Target Information"
            /\ consoleError' = ""
            /\ lastEnd' = "missing"
            /\ UNCHANGED <<isScanning, activeModule, progress, results, timeline, pc,
                           current, runTarget, runConfig, serviceCalls,
                   totalModules,
                           completedModules>>
       ELSE /\ runTarget' = target
            /\ runConfig' = scanConfig
            /\ totalModules' = TotalModules(scanConfig)
            /\ ContinueRun(scanConfig, target, <<>>,
                           <<TimelineEntry("Framework", "STARTED",
                                           [kind |-> "target", target |-> target])>>,
                           0, Zero, EmptyResults, 1, "")
    /\ UNCHANGED <<mounted, pureVars, edits, target, scanConfig, searchVars, serviceVars>>

(***************************************************************************)
(* The continuation of startFullRecon after the awaited service call of    *)
(* the current module resolved: the output is stored and a COMPLETED entry *)
(* appended; then completedModules++ and setProgress, and the run goes on. *)
(***************************************************************************)
ServiceResolves ==
    /\ mounted = "ReconFramework"
    /\ pc = "await"
    /\ ContinueRun(runConfig, CapturedTarget, serviceCalls,
                   TimelineAfterModule(timeline, current, TRUE),
                   completedModules + 1,
                   ModuleProgress(completedModules + 1, totalModules),
                   [results EXCEPT ![current] = TRUE],
                   ModuleIndex(current) + 1, toastShown)
    /\ UNCHANGED <<mounted, pureVars, edits, target, scanConfig, runTarget, runConfig, totalModules,
                   searchVars, serviceVars>>

\* A faulty variant of ServiceRejects: the module block has no try/catch of
\* its own, so the rejection reaches the catch block of lines 324-330 and
\* the run ends there.
ServiceRejectsUncaught ==
    /\ mounted = "ReconFramework"
    /\ pc = "await"
    /\ consoleError' = ServiceErrorMessage(current)
    /\ \E throws2 \in BOOLEAN :
         toastShown' = IF throws2 THEN toastShown ELSE "Reconnaissance Failed"
    /\ lastEnd' = "caught"
    /\ isScanning' = FALSE
    /\ activeModule' = ""
    /\ pc' = "idle"
    /\ current' = ""
    /\ UNCHANGED <<mounted, pureVars, edits, target, scanConfig, progress, results, timeline,
                   runTarget, runConfig, serviceCalls,
                   totalModules, completedModules,
                   searchVars, serviceVars>>

\* A faulty variant of ServiceRejects: after the FAILED entry the handler
\* stops, without the rest of the try block and without the finally block.
ServiceRejectsAborts ==
    /\ mounted = "ReconFramework"
    /\ pc = "await"
    /\ timeline' = TimelineAfterModule(timeline, current, FALSE)
    /\ lastEnd' = "caught"
    /\ pc' = "idle"
    /\ current' = ""
    /\ UNCHANGED <<mounted, pureVars, edits, target, scanConfig, isScanning, activeModule,
                   progress, results, runTarget, runConfig, serviceCalls,
                   totalModules,
                   completedModules, toastShown, consoleError,
                   searchVars, serviceVars>>

(***************************************************************************)
(* The continuation after the awaited service call rejected: the module's  *)
(* catch block appends a FAILED entry; then completedModules++ and         *)
(* setProgress, and the run goes on.                                       *)
(***************************************************************************)
ServiceRejects ==
    /\ mounted = "ReconFramework"
    /\ pc = "await"
    /\ ContinueRun(runConfig, CapturedTarget, serviceCalls,
                   TimelineAfterModule(timeline, current, FALSE),
                   completedModules + 1,
                   ModuleProgress(completedModules + 1, totalModules),
                   results,
                   ModuleIndex(current) + 1, toastShown)
    /\ UNCHANGED <<mounted, pureVars, edits, target, scanConfig, runTarget, runConfig, totalModules,
                   searchVars, serviceVars>>

(***************************************************************************)
(* The user's edits: the two target inputs (lines 429-443) and the module  *)
(* cards and option checkboxes (lines 461-464, 488-511).  None of them is  *)
(* disabled during a scan.                                                 *)
(***************************************************************************)
SetTargetDomain ==
    /\ mounted = "ReconFramework"
    /\ edits < MaxEdits
    /\ \E d \in Domains : target' = [target EXCEPT !.domain = d]
    /\ edits' = edits + 1
    /\ UNCHANGED <<mounted, pureVars, scanConfig, isScanning, activeModule, progress, results,
                   timeline, pc, current, runTarget, runConfig, serviceCalls,
                   totalModules,
                   completedModules, lastEnd, toastShown, consoleError,
                   searchVars, serviceVars>>

SetTargetCompany ==
    /\ mounted = "ReconFramework"
    /\ edits < MaxEdits
    /\ \E c \in Companies : target' = [target EXCEPT !.company = c]
    /\ edits' = edits + 1
    /\ UNCHANGED <<mounted, pureVars, scanConfig, isScanning, activeModule, progress, results,
                   timeline, pc, current, runTarget, runConfig, serviceCalls,
                   totalModules,
                   completedModules, lastEnd, toastShown, consoleError,
                   searchVars, serviceVars>>

ToggleScanConfig ==
    /\ mounted = "ReconFramework"
    /\ edits < MaxEdits
    /\ \E k \in ConfigKeys : scanConfig' = [scanConfig EXCEPT ![k] = ~scanConfig[k]]
    /\ edits' = edits + 1
    /\ UNCHANGED <<mounted, pureVars, target, isScanning, activeModule, progress, results,
                   timeline, pc, current, runTarget, runConfig, serviceCalls,
                   totalModules,
                   completedModules, lastEnd, toastShown, consoleError,
                   searchVars, serviceVars>>

(***************************************************************************)
(* OSINTService: profiles.  A profile keeps the fields the service reads:  *)
(* name, title, company, email, linkedin and confidence (in percent).  An  *)
(* absent email is <<>>, a present one <<local part, domain>>; an absent   *)
(* linkedin link is "".                                                    *)
(***************************************************************************)
\* name.toLowerCase()
LowerName(name) ==
    CASE name = "Alex Smith" -> "alex smith"
      [] name = "Jane Lee" -> "jane lee"

\* generateEmailFromName, lines 511-520: first.last@domain
GenerateEmailFromName(name, domain) ==
    <<CASE name = "Alex Smith" -> "alex.smith"
        [] name = "Jane Lee" -> "jane.lee",
      domain>>

\* `https://linkedin.com/in/${name.toLowerCase().replace(/\s+/g, '')}`, line 345
LinkedInOf(name) ==
    CASE name = "Alex Smith" -> "https://linkedin.com/in/alexsmith"
      [] name = "Jane Lee" -> "https://linkedin.com/in/janelee"

\* generateOptimizedMockProfile, lines 294-357, for the random choices name,
\* title, hasEmail, hasLinkedIn and confidence.
MockProfile(params, name, title, hasEmail, hasLinkedIn, confidence) ==
    [name |-> name,
     title |-> title,
     company |-> params.company,
     email |-> IF hasEmail THEN GenerateEmailFromName(name, params.domain) ELSE <<>>,
     linkedin |-> IF hasLinkedIn THEN LinkedInOf(name) ELSE "",
     confidence |-> confidence]

\* The profile lists performSearch may resolve with (line 289; the code draws
\* at least ten profiles per search, the model one or two).
SearchOutcomes(params) ==
    { <<MockProfile(params, "Alex Smith", "Senior Software Engineer", TRUE, TRUE, 70)>>,
      <<MockProfile(params, "Alex Smith", "Sales Director", FALSE, TRUE, 90),
        MockProfile(params, "Jane Lee", "Data Analyst", TRUE, FALSE, 80)>> }

\* domain.toLowerCase(), for the domains of the model (the local part of a
\* generated email is in lower case already, line 512)
LowerDomain(domain) ==
    CASE domain = "Example.com" -> "example.com"
      [] OTHER -> domain

\* The key of deduplicateResults, line 362:
\* `${name.toLowerCase()}-${email?.toLowerCase() || linkedin || ''}`
IdentityKey(profile) ==
    <<LowerName(profile.name),
      IF profile.email # <<>> THEN <<profile.email[1], LowerDomain(profile.email[2])>>
      ELSE IF profile.linkedin # "" THEN <<profile.linkedin>>
      ELSE <<>> >>

\* A faulty variant of DedupFrom: a key is forgotten when a duplicate of it
\* is dropped (seen.delete(key) in the branch that returns false).
RECURSIVE DedupFromForgetful(_, _)
DedupFromForgetful(list, seen) ==
    IF list = <<>> THEN <<>>
    ELSE LET key == IdentityKey(Head(list)) IN
         IF key \in seen THEN DedupFromForgetful(Tail(list), seen \ {key})
         ELSE <<Head(list)>> \o DedupFromForgetful(Tail(list), seen \cup {key})

\* A faulty variant of DedupFrom: of the profiles with one key the last is
\* kept instead of the first.
RECURSIVE DedupFromKeepLast(_, _)
DedupFromKeepLast(list, seen) ==
    IF list = <<>> THEN <<>>
    ELSE LET key == IdentityKey(Head(list))
             rest == Tail(list)
         IN IF \E i \in 1..Len(rest) : IdentityKey(rest[i]) = key
            THEN DedupFromKeepLast(rest, seen)
            ELSE <<Head(list)>> \o DedupFromKeepLast(rest, seen)

\* deduplicateResults, lines 359-369: keep the first profile of each key.
RECURSIVE DedupFrom(_, _)
DedupFrom(list, seen) ==
    IF list = <<>> THEN <<>>
    ELSE LET key == IdentityKey(Head(list)) IN
         IF key \in seen THEN DedupFrom(Tail(list), seen)
         ELSE <<Head(list)>> \o DedupFrom(Tail(list), seen \cup {key})

DeduplicateResults(list) == DedupFrom(list, {})

\* profile.title.toLowerCase().includes(word)
TitleIncludes(title, word) ==
    CASE word = "senior" -> title \in {"Senior Software Engineer"}
      [] word = "lead" -> FALSE
      [] word = "director" -> title \in {"Sales Director"}
      [] word = "engineer" -> title \in {"Senior Software Engineer"}
      [] word = "developer" -> FALSE

\* calculateRelevanceScore, lines 391-405
CalculateRelevanceScore(profile, params) ==
    profile.confidence
    + (IF \/ TitleIncludes(profile.title, "senior")
          \/ TitleIncludes(profile.title, "lead")
          \/ TitleIncludes(profile.title, "director") THEN 20 ELSE 0)
    + (IF /\ params.searchType # "basic"
          /\ \/ TitleIncludes(profile.title, "engineer")
             \/ TitleIncludes(profile.title, "developer") THEN 15 ELSE 0)

\* The confidence boost of enhanceProfiles, lines 375-383 (location is always
\* set by the generator: + 5; github is not modelled).
EnhancedConfidence(profile) ==
    LET boost == (IF profile.email # <<>> THEN 15 ELSE 0)
                 + (IF profile.linkedin # "" THEN 10 ELSE 0) + 5
        c == profile.confidence + boost
    IN IF c > 100 THEN 100 ELSE c

\* The map step of enhanceProfiles, lines 381-387.
EnhanceOne(profile, params) ==
    [name |-> profile.name,
     title |-> profile.title,
     company |-> profile.company,
     email |-> IF profile.email # <<>> THEN profile.email
               ELSE GenerateEmailFromName(profile.name, params.domain),
     linkedin |-> profile.linkedin,
     confidence |-> EnhancedConfidence(profile),
     relevanceScore |-> CalculateRelevanceScore(profile, params)]

\* Array.prototype.sort with (a, b) => b.relevanceScore - a.relevanceScore:
\* a stable sort by descending score.
RECURSIVE InsertByScore(_, _)
InsertByScore(sorted, x) ==
    IF sorted = <<>> THEN <<x>>
    ELSE IF Head(sorted).relevanceScore >= x.relevanceScore
         THEN <<Head(sorted)>> \o InsertByScore(Tail(sorted), x)
         ELSE <<x>> \o sorted

RECURSIVE SortByScore(_)
SortByScore(list) ==
    IF list = <<>> THEN <<>>
    ELSE InsertByScore(SortByScore(SubSeq(list, 1, Len(list) - 1)), list[Len(list)])

\* enhanceProfiles, lines 371-389
EnhanceProfiles(list, params) ==
    SortByScore([i \in 1..Len(list) |-> EnhanceOne(list[i], params)])

(***************************************************************************)
(* OSINTService: queries, batches and the cache.                           *)
(***************************************************************************)
SearchTypes == {"basic", "deep", "stealth"}

\* A query string is kept as the template it was built from and the target
\* values the template interpolates ("" for a value it does not use).
\* The code builds some hundred and sixty templates and more; the model
\* keeps one of those pushed for every search type (it is one of the list
\* generateAIEnhancedQueries returns), one added for 'deep' or 'stealth'
\* and one added for 'stealth' only.

\* A version of generateAIEnhancedQueries that reads its searchType.
GenerateAIEnhancedQueriesBasicOnly(company, domain, searchType) ==
    IF searchType = "basic"
    THEN { [template |-> "\"${company}\" tech team", company |-> company, domain |-> ""] }
    ELSE {}

\* generateAIEnhancedQueries, lines 522-558: searchType is a parameter that
\* the body does not read.
GenerateAIEnhancedQueries(company, domain, searchType) ==
    { [template |-> "\"${company}\" tech team", company |-> company, domain |-> ""] }

\* generateSearchQueries, lines 140-247; new Set(...) removes duplicates.
GenerateSearchQueries(params) ==
    GenerateAIEnhancedQueries(params.company, params.domain, params.searchType)
    \cup (IF params.searchType \in {"deep", "stealth"}
          THEN { [template |-> "site:github.com \"${domain}\"", company |-> "",
                  domain |-> params.domain] }
          ELSE {})
    \cup (IF params.searchType = "stealth"
          THEN { [template |-> "cache:${domain}", company |-> "", domain |-> params.domain] }
          ELSE {})

\* shuffleArray, lines 560-567: every order of the queries.
ShuffleArray(S) ==
    {q \in [1..Cardinality(S) -> S] : \A i, j \in 1..Cardinality(S) : q[i] = q[j] => i = j}

\* createBatches, lines 128-134
RECURSIVE CreateBatches(_, _)
CreateBatches(array, batchSize) ==
    IF array = <<>> THEN <<>>
    ELSE IF Len(array) <= batchSize THEN <<array>>
    ELSE <<SubSeq(array, 1, batchSize)>>
         \o CreateBatches(SubSeq(array, batchSize + 1, Len(array)), batchSize)

\* batchResults.flat()
RECURSIVE Flat(_)
Flat(lists) == IF lists = <<>> THEN <<>> ELSE Head(lists) \o Flat(Tail(lists))

\* A key without the TTL window.
CacheKeyNoWindow(query, searchType, time) ==
    [query |-> query, searchType |-> searchType, window |-> 0]

\* `${query}-${params.searchType}-${Date.now() - (Date.now() % this.CACHE_TTL)}`
CacheKey(query, searchType, time) ==
    [query |-> query, searchType |-> searchType, window |-> time - (time % CACHE_TTL)]

\* The cache is a Map: a sequence of [key, value] in insertion order.  An
\* entry also records, in storedAt, the value of Date.now() when it was set,
\* which the Map of the code does not hold.
CacheHas(c, key) == \E i \in 1..Len(c) : c[i].key = key

CacheGet(c, key) == c[CHOOSE i \in 1..Len(c) : c[i].key = key].value

\* When the entry of a key was set.
StoredAt(c, key) == c[CHOOSE i \in 1..Len(c) : c[i].key = key].storedAt

\* A faulty variant of CacheSet: the clean-up deletes the newest entries
\* (slice(-500)) instead of the oldest.
CacheSetEvictNewest(c, key, value, time) ==
    LET entry == [key |-> key, value |-> value, storedAt |-> time]
        set == IF CacheHas(c, key)
               THEN [i \in 1..Len(c) |-> IF c[i].key = key THEN entry ELSE c[i]]
               ELSE Append(c, entry)
    IN IF Len(set) > CACHE_MAX_SIZE
       THEN SubSeq(set, 1, Len(set) - CACHE_EVICT_COUNT)
       ELSE set

\* this.cache.set(cacheKey, results) and the clean-up, lines 261-267
CacheSet(c, key, value, time) ==
    LET entry == [key |-> key, value |-> value, storedAt |-> time]
        set == IF CacheHas(c, key)
               THEN [i \in 1..Len(c) |-> IF c[i].key = key THEN entry ELSE c[i]]
               ELSE Append(c, entry)
    IN IF Len(set) > CACHE_MAX_SIZE
       THEN SubSeq(set, CACHE_EVICT_COUNT + 1, Len(set))
       ELSE set

(***************************************************************************)
(* OSINTService.performReconnaissance: the locals of one invocation are    *)
(* the record "run".                                                       *)
(*   state       "idle" (no invocation yet), "batch" (awaiting the         *)
(*               Promise.all of the current batch), "delay" (awaiting the  *)
(*               inter-batch sleep), "resolved" or "rejected"              *)
(*   callback    the onProgress argument: "none" (undefined),              *)
(*               "handleSearch" (the closure of handleSearch, which never  *)
(*               throws) or "custom" (a caller's function, which may throw)*)
(*   tasks       the async functions of the current batch, each            *)
(*               "stagger" (in its stagger sleep), "search" (awaiting      *)
(*               performSearch), "fulfilled" or "rejected"                 *)
(*   progressLog every snapshot passed to onProgress, in order             *)
(*   cbThrew     whether an onProgress invocation threw                    *)
(***************************************************************************)
NoParams == [company |-> "", domain |-> "", searchType |-> "basic"]

NoReturn == [kind |-> "none"]

NoKey == CacheKey([template |-> "", company |-> "", domain |-> ""], "", 0)

IdleRun ==
    [state |-> "idle", params |-> NoParams, callback |-> "none", queries |-> <<>>,
     batchIndex |-> 0, tasks |-> <<>>, processed |-> 0, results |-> <<>>,
     returned |-> NoReturn, progressLog |-> <<>>, cbThrew |-> FALSE]

\* Besides its position, its query, the cache key it computed and the
\* profiles it returned, a task records about its searchWithAdaptiveRetry
\* call: calledAt, the value of Date.now() at the call (-1: not yet called);
\* via, how the call returned ("cache": line 253, "search": line 269,
\* "catch": line 272, "": not yet); served, when the cache entry that line
\* 253 returned had been set (-1: none).
NewTask(query) ==
    [st |-> "stagger", query |-> query, key |-> NoKey, out |-> <<>>,
     calledAt |-> -1, via |-> "", served |-> -1]

NoThrow == [first |-> FALSE, second |-> FALSE]

\* The outcomes of the onProgress invocations of one task: the call in the
\* try block throws or not and, if it threw, so does or does not the call in
\* the catch block.
ThrowChoices(callback) ==
    IF callback = "custom"
    THEN {NoThrow, [first |-> TRUE, second |-> FALSE], [first |-> TRUE, second |-> TRUE]}
    ELSE {NoThrow}

Total(r) == Len(r.queries)

NumBatches(r) == Len(CreateBatches(r.queries, BatchSize))

\* (queryIndex % 5) * 20, line 67
StaggerDelay(queryIndex) == (queryIndex % STAGGER_GROUP) * 20

\* The outcomes of the onProgress invocations made while a batch of n tasks
\* is started: only a task without a stagger delay gets to onProgress then.
StartThrows(callback, n) ==
    {ths \in [1..BatchSize -> ThrowChoices(callback)] :
        \A i \in 1..BatchSize : (i > n \/ StaggerDelay(i - 1) > 0) => ths[i] = NoThrow}

\* The value performReconnaissance returns, lines 98-120.
FinalResults(r, raw) ==
    [kind |-> "results",
     data |-> EnhanceProfiles(DeduplicateResults(raw), r.params),
     total |-> Total(r),
     processed |-> r.processed]

\* A faulty variant of TaskContinuation: each task reports its own position
\* in the list of queries instead of the shared counter.
TaskContinuationOwnIndex(r, i, profiles, th) ==
    LET own == r.batchIndex * BatchSize + i
        s1 == [processed |-> own, total |-> Total(r),
               found |-> Len(r.results) + Len(profiles)]
    IN [r EXCEPT !.processed = @ + 1,
                 !.progressLog = IF r.callback = "none" THEN @ ELSE Append(@, s1),
                 !.tasks[i].st = "fulfilled", !.tasks[i].out = profiles]

\* Lines 71-81 for task i, after searchWithAdaptiveRetry returned profiles:
\* processed++, onProgress, return; an exception of onProgress is caught in
\* line 77, where processed++ and onProgress are repeated.
TaskContinuation(r, i, profiles, th) ==
    LET p1 == r.processed + 1
        s1 == [processed |-> p1, total |-> Total(r),
               found |-> Len(r.results) + Len(profiles)]
        s2 == [processed |-> p1 + 1, total |-> Total(r), found |-> Len(r.results)]
    IN IF r.callback = "none"
       THEN [r EXCEPT !.processed = p1,
                      !.tasks[i].st = "fulfilled", !.tasks[i].out = profiles]
       ELSE IF ~th.first
       THEN [r EXCEPT !.processed = p1, !.progressLog = Append(@, s1),
                      !.tasks[i].st = "fulfilled", !.tasks[i].out = profiles]
       ELSE IF ~th.second
       THEN [r EXCEPT !.processed = p1 + 1, !.progressLog = @ \o <<s1, s2>>,
                      !.cbThrew = TRUE,
                      !.tasks[i].st = "fulfilled", !.tasks[i].out = <<>>]
       ELSE [r EXCEPT !.processed = p1 + 1, !.progressLog = @ \o <<s1, s2>>,
                      !.cbThrew = TRUE,
                      !.tasks[i].st = "rejected", !.tasks[i].out = <<>>]

\* A faulty variant of AfterSettle: the loop goes on as soon as one task of
\* the batch is fulfilled (Promise.race in place of Promise.all).
AfterSettleAny(r) ==
    IF r.state # "batch" THEN r
    ELSE IF \E i \in 1..Len(r.tasks) : r.tasks[i].st = "fulfilled"
    THEN LET raw == r.results \o Flat([i \in 1..Len(r.tasks) |-> r.tasks[i].out]) IN
         IF r.batchIndex < NumBatches(r) - 1
         THEN [r EXCEPT !.results = raw, !.state = "delay"]
         ELSE [r EXCEPT !.results = raw, !.state = "resolved",
                        !.returned = FinalResults(r, raw)]
    ELSE r

\* Lines 85-93 and 95-125 once a task of the batch has settled: Promise.all
\* rejects with the first rejection (the catch of line 122 throws the Error),
\* and resolves when every task is fulfilled; then the batch's results are
\* pushed and the loop sleeps before the next batch or the run is finalized.
AfterSettle(r) ==
    IF r.state # "batch" THEN r
    ELSE IF \E i \in 1..Len(r.tasks) : r.tasks[i].st = "rejected"
    THEN [r EXCEPT !.state = "rejected"]
    ELSE IF \A i \in 1..Len(r.tasks) : r.tasks[i].st = "fulfilled"
    THEN LET raw == r.results \o Flat([i \in 1..Len(r.tasks) |-> r.tasks[i].out]) IN
         IF r.batchIndex < NumBatches(r) - 1
         THEN [r EXCEPT !.results = raw, !.state = "delay"]
         ELSE [r EXCEPT !.results = raw, !.state = "resolved",
                        !.returned = FinalResults(r, raw)]
    ELSE r

\* searchWithAdaptiveRetry up to its await, lines 249-258, called by task i at
\* the given time: a cached value is returned at once (and the task goes on
\* in the same turn of the event loop), otherwise performSearch is awaited.
\* w is the pair [run, cache].
CallSearch(w, i, time, th) ==
    LET key == CacheKey(w.run.tasks[i].query, w.run.params.searchType, time) IN
    IF CacheHas(w.cache, key)
    THEN [w EXCEPT !.run = AfterSettle(TaskContinuation(
                               [w.run EXCEPT !.tasks[i].calledAt = time,
                                             !.tasks[i].via = "cache",
                                             !.tasks[i].served = StoredAt(w.cache, key)],
                               i, CacheGet(w.cache, key), th))]
    ELSE [w EXCEPT !.run.tasks[i].st = "search", !.run.tasks[i].key = key,
                   !.run.tasks[i].calledAt = time]

\* batch.map(async ...), lines 64-82: each task runs up to its first await.
RECURSIVE StartTasks(_, _, _, _)
StartTasks(w, i, time, ths) ==
    IF i > Len(w.run.tasks) THEN w
    ELSE StartTasks(IF StaggerDelay(i - 1) = 0 THEN CallSearch(w, i, time, ths[i]) ELSE w,
                    i + 1, time, ths)

\* One iteration of the batch loop up to its await, lines 60-85.
StartBatch(w, b, time, ths) ==
    LET batch == CreateBatches(w.run.queries, BatchSize)[b + 1]
        r1 == [w.run EXCEPT !.state = "batch", !.batchIndex = b,
                            !.tasks = [i \in 1..Len(batch) |-> NewTask(batch[i])]]
    IN StartTasks([w EXCEPT !.run = r1], 1, time, ths)

\* performReconnaissance up to its first await, lines 45-85, for the queries
\* in the order the shuffle gave them.
StartRun(c, params, callback, queries, time, ths) ==
    LET r0 == [IdleRun EXCEPT !.state = "batch", !.params = params,
                              !.callback = callback, !.queries = queries]
    IN IF queries = <<>>
       THEN [run |-> AfterSettle(r0), cache |-> c]
       ELSE StartBatch([run |-> r0, cache |-> c], 0, time, ths)

(***************************************************************************)
(* OSINTSearch.                                                            *)
(***************************************************************************)
ZeroStats == [total |-> 0, processed |-> 0, found |-> 0]

\* if (!searchParams.company || !searchParams.domain), line 733
ParamsMissing(p) == p.company = "" \/ p.domain = ""

(***************************************************************************)
(* The React state of OSINTSearch after a turn of the event loop that took *)
(* the run from r1 to r2, for the values stats, rtp and res the state had  *)
(* before (or was reset to by) the turn.  Every snapshot passed to the     *)
(* closure of handleSearch sets searchStats and realTimeProgress (lines    *)
(* 752-766); when the awaited performReconnaissance settled, handleSearch  *)
(* goes on with lines 769-792.  throws1 and throws2 are the outcomes of    *)
(* the toast of line 779 and of the toast of the catch block.              *)
(***************************************************************************)
HandleSearchEffects(r1log, r2, waiting, stats, rtp, res, shown) ==
    LET reported == r2.callback = "handleSearch" /\ Len(r2.progressLog) > r1log
        snap == r2.progressLog[Len(r2.progressLog)]
        stats1 == IF reported
                  THEN [total |-> snap.total, processed |-> snap.processed,
                        found |-> snap.found]
                  ELSE stats
        rtp1 == IF reported THEN Pct(snap.processed * 100, snap.total) ELSE rtp
    IN
    IF waiting /\ r2.state = "resolved"
    THEN /\ searchResults' = r2.returned.data
         /\ searchStats' = [total |-> r2.returned.total,
                            processed |-> r2.returned.processed,
                            found |-> Len(r2.returned.data)]
         /\ realTimeProgress' = rtp1
         /\ \E throws1 \in BOOLEAN, throws2 \in BOOLEAN :
              IF ~throws1
              THEN /\ searchToast' = "RECON FRAMEWORK Complete"
                   /\ searchEnd' = "completed"
                   /\ searchConsoleError' = ""
              ELSE \* catch (error), lines 783-789
                   /\ searchConsoleError' = ToastError
                   /\ searchToast' = IF throws2 THEN shown ELSE "Search Failed"
                   /\ searchEnd' = "caught"
         \* finally
         /\ isSearching' = FALSE
    ELSE IF waiting /\ r2.state = "rejected"
    THEN /\ searchResults' = res
         /\ searchStats' = stats1
         /\ realTimeProgress' = rtp1
         /\ searchConsoleError' = ServiceErrorMessage("osint")
         /\ \E throws2 \in BOOLEAN :
              searchToast' = IF throws2 THEN shown ELSE "Search Failed"
         /\ searchEnd' = "caught"
         \* finally
         /\ isSearching' = FALSE
    ELSE /\ searchResults' = res
         /\ searchStats' = stats1
         /\ realTimeProgress' = rtp1
         /\ searchToast' = shown
         /\ searchConsoleError' = IF waiting THEN "" ELSE searchConsoleError
         /\ searchEnd' = IF waiting THEN "running" ELSE searchEnd
         /\ isSearching' = waiting

\* The effects of a turn of the event loop of the service on its caller.
CallerEffects(r2) ==
    IF mounted = "OSINTSearch"
    THEN HandleSearchEffects(Len(run.progressLog), r2, searchEnd = "running",
                             searchStats, realTimeProgress, searchResults, searchToast)
    ELSE UNCHANGED <<isSearching, searchResults, searchStats, realTimeProgress,
                     searchEnd, searchToast, searchConsoleError>>

(***************************************************************************)
(* handleSearch, from its invocation to its await or its return.  The      *)
(* button is disabled while isSearching and while company or domain is     *)
(* empty (line 959); as for startFullRecon, the handler is not invoked     *)
(* while a search is running, and an empty field is left to its own test   *)
(* (line 733).                                                             *)
(***************************************************************************)
HandleSearch ==
    /\ mounted = "OSINTSearch"
    /\ ~isSearching
    /\ IF ParamsMissing(searchParams)
       THEN /\ searchToast' = "Missing Information"
            /\ searchConsoleError' = ""
            /\ searchEnd' = "missing"
            /\ UNCHANGED <<isSearching, searchResults, searchStats, realTimeProgress,
                           run, cache, runsStarted>>
       ELSE /\ runsStarted < MaxRuns
            /\ runsStarted' = runsStarted + 1
            /\ \E queries \in ShuffleArray(GenerateSearchQueries(searchParams)) :
                 LET w == StartRun(cache, searchParams, "handleSearch", queries, now,
                                   [i \in 1..BatchSize |-> NoThrow])
                 IN /\ run' = w.run
                    /\ cache' = w.cache
                    /\ HandleSearchEffects(0, w.run, TRUE, ZeroStats, Zero, <<>>, "")
    /\ UNCHANGED <<mounted, pureVars, edits, reconVars, searchParams, now>>

(***************************************************************************)
(* A direct call of OSINTService.performReconnaissance by a caller of the  *)
(* exported class, with or without an onProgress function of its own.      *)
(***************************************************************************)
CallPerformReconnaissance ==
    /\ mounted = "OSINTService"
    /\ run.state \in {"idle", "resolved", "rejected"}
    /\ \A i \in 1..Len(run.tasks) : run.tasks[i].st \in {"fulfilled", "rejected"}
    /\ runsStarted < MaxRuns
    /\ runsStarted' = runsStarted + 1
    /\ \E params \in [company : Companies \ {""}, domain : Domains \ {""},
                      searchType : SearchTypes],
          callback \in {"none", "custom"} :
         \E queries \in ShuffleArray(GenerateSearchQueries(params)) :
            \E ths \in StartThrows(callback, Len(queries)) :
               LET w == StartRun(cache, params, callback, queries, now, ths)
               IN /\ run' = w.run
                  /\ cache' = w.cache
    /\ UNCHANGED <<mounted, pureVars, edits, reconVars, searchVars, now>>

(***************************************************************************)
(* The timer of the stagger sleep of task i fires (line 68): the task      *)
(* calls searchWithAdaptiveRetry.                                          *)
(***************************************************************************)
StaggerElapses ==
    /\ mounted \in {"OSINTSearch", "OSINTService"}
    /\ \E i \in 1..Len(run.tasks) :
         /\ run.tasks[i].st = "stagger"
         /\ StaggerDelay(i - 1) > 0
         /\ \E th \in ThrowChoices(run.callback) :
              LET w == CallSearch([run |-> run, cache |-> cache], i, now, th)
              IN /\ run' = w.run
                 /\ cache' = w.cache
                 /\ CallerEffects(w.run)
    /\ UNCHANGED <<mounted, pureVars, edits, reconVars, searchParams, now, runsStarted>>

(***************************************************************************)
(* performSearch of task i resolves (lines 276-292): the profiles are      *)
(* stored in the cache under the key computed before the search, and the   *)
(* task goes on.                                                           *)
(***************************************************************************)
SearchResolves ==
    /\ mounted \in {"OSINTSearch", "OSINTService"}
    /\ \E i \in 1..Len(run.tasks) :
         /\ run.tasks[i].st = "search"
         /\ \E profiles \in SearchOutcomes(run.params), th \in ThrowChoices(run.callback) :
              LET r2 == AfterSettle(TaskContinuation([run EXCEPT !.tasks[i].via = "search"],
                                                     i, profiles, th))
              IN /\ run' = r2
                 /\ cache' = CacheSet(cache, run.tasks[i].key, profiles, now)
                 /\ CallerEffects(r2)
    /\ UNCHANGED <<mounted, pureVars, edits, reconVars, searchParams, now, runsStarted>>

\* A faulty variant of SearchFails: searchWithAdaptiveRetry has no catch and
\* the task has none either, so the task rejects and Promise.all with it.
SearchFailureUncaught ==
    /\ mounted \in {"OSINTSearch", "OSINTService"}
    /\ \E i \in 1..Len(run.tasks) :
         /\ run.tasks[i].st = "search"
         /\ LET r2 == AfterSettle([run EXCEPT !.tasks[i].st = "rejected"])
            IN /\ run' = r2
               /\ CallerEffects(r2)
    /\ UNCHANGED <<mounted, pureVars, edits, reconVars, searchParams, cache, now, runsStarted>>

(***************************************************************************)
(* performSearch of task i fails: searchWithAdaptiveRetry catches the      *)
(* error and returns no profiles (lines 270-273); the cache is not         *)
(* written.  The simulated search of the repository never fails; a real    *)
(* one does.                                                               *)
(***************************************************************************)
SearchFails ==
    /\ mounted \in {"OSINTSearch", "OSINTService"}
    /\ \E i \in 1..Len(run.tasks) :
         /\ run.tasks[i].st = "search"
         /\ \E th \in ThrowChoices(run.callback) :
              LET r2 == AfterSettle(TaskContinuation([run EXCEPT !.tasks[i].via = "catch"],
                                                     i, <<>>, th))
              IN /\ run' = r2
                 /\ CallerEffects(r2)
    /\ UNCHANGED <<mounted, pureVars, edits, reconVars, searchParams, cache, now, runsStarted>>

(***************************************************************************)
(* The timer of the inter-batch sleep fires (lines 89-92): the next batch  *)
(* is started.                                                             *)
(***************************************************************************)
BatchDelayElapses ==
    /\ mounted \in {"OSINTSearch", "OSINTService"}
    /\ run.state = "delay"
    /\ \E ths \in StartThrows(run.callback,
                              Len(CreateBatches(run.queries, BatchSize)[run.batchIndex + 2])) :
         LET w == StartBatch([run |-> run, cache |-> cache], run.batchIndex + 1, now, ths)
         IN /\ run' = w.run
            /\ cache' = w.cache
            /\ CallerEffects(w.run)
    /\ UNCHANGED <<mounted, pureVars, edits, reconVars, searchParams, now, runsStarted>>

\* Time passes.
Tick ==
    /\ mounted \in {"OSINTSearch", "OSINTService"}
    /\ now < (MaxTicks + 1) * TickMs
    /\ now' = now + TickMs
    /\ UNCHANGED <<mounted, pureVars, edits, reconVars, searchVars, run, cache, runsStarted>>

\* The inputs of OSINTSearch (lines 881, 890 and 901): company, domain and
\* search type.
SetSearchParams ==
    /\ mounted = "OSINTSearch"
    /\ edits < MaxEdits
    /\ edits' = edits + 1
    /\ \/ \E c \in Companies : searchParams' = [searchParams EXCEPT !.company = c]
       \/ \E d \in Domains : searchParams' = [searchParams EXCEPT !.domain = d]
       \/ \E t \in SearchTypes : searchParams' = [searchParams EXCEPT !.searchType = t]
    /\ UNCHANGED <<mounted, pureVars, reconVars, isSearching, searchResults, searchStats,
                   realTimeProgress, searchEnd, searchToast, searchConsoleError,
                   serviceVars>>

(***************************************************************************)
(* The state after construction (useState initial values, lines 65-96),    *)
(* with the target fields and the configuration flags already set to any   *)
(* value the edits above can give them.                                    *)
(***************************************************************************)
ReconInit ==
    /\ target \in [domain : Domains, company : Companies]
    /\ scanConfig \in [ConfigKeys -> BOOLEAN]
    /\ isScanning = FALSE
    /\ activeModule = ""
    /\ progress = Zero
    /\ results = EmptyResults
    /\ timeline = <<>>
    /\ pc = "idle"
    /\ current = ""
    /\ runTarget = NoTarget
    /\ serviceCalls = <<>>
    /\ runConfig = NoConfig
    /\ totalModules = 0
    /\ completedModules = 0
    /\ lastEnd = "none"
    /\ toastShown = ""
    /\ consoleError = ""

\* The state of OSINTSearch after construction (lines 713-729), with any
\* values in its inputs.
SearchInit ==
    /\ searchParams \in [company : Companies, domain : Domains, searchType : SearchTypes]
    /\ isSearching = FALSE
    /\ searchResults = <<>>
    /\ searchStats = ZeroStats
    /\ realTimeProgress = Zero
    /\ searchEnd = "none"
    /\ searchToast = ""
    /\ searchConsoleError = ""

\* The static cache is empty when the class is loaded; invocations before
\* the behaviour's (in the cache window that started at time 0) may have
\* left entries in it: those of a 'basic' search, or those of a 'stealth'
\* search whose three queries resolved in the order of PriorQueries.
PriorParams(searchType) ==
    [company |-> "Example Corp", domain |-> "example.com", searchType |-> searchType]

PriorOutcome(params) ==
    <<MockProfile(params, "Alex Smith", "Sales Director", FALSE, TRUE, 90),
      MockProfile(params, "Jane Lee", "Data Analyst", TRUE, FALSE, 80)>>

RECURSIVE CacheAfter(_, _, _)
CacheAfter(c, queries, params) ==
    IF queries = <<>> THEN c
    ELSE CacheAfter(CacheSet(c, CacheKey(Head(queries), params.searchType, 0),
                             PriorOutcome(params), 0),
                    Tail(queries), params)

PriorQueries(params) ==
    CHOOSE q \in ShuffleArray(GenerateSearchQueries(params)) :
        \A i \in 1..Len(q) - 1 : Len(q[i].template) >= Len(q[i + 1].template)

\* A cache that earlier 'basic' searches for other companies have filled to
\* the size the clean-up of line 264 tolerates.
FullCache ==
    [i \in 1..CACHE_MAX_SIZE |->
       [key |-> CacheKey([template |-> "\"${company}\" tech team",
                          company |-> "Company " \o ToString(i), domain |-> ""],
                         "basic", 0),
        value |-> <<>>, storedAt |-> 0]]

PriorCaches ==
    { <<>> } \cup
    { CacheAfter(<<>>, PriorQueries(PriorParams(t)), PriorParams(t)) : t \in {"basic", "stealth"} }

ServiceInit ==
    /\ run = IdleRun
    /\ cache \in PriorCaches
    /\ now = TickMs
    /\ runsStarted = 0

\* deduplicateResults has not been applied on its own.
DedupIdle ==
    /\ dedupArg = <<>>
    /\ dedupRet = <<>>

\* generateSearchQueries has not been applied on its own.
QueryIdle ==
    /\ queryArg = [company |-> "", domain |-> ""]
    /\ queryRet = [t \in SearchTypes |-> <<>>]

\* No batchProcessor invocation.
BatchIdle == batchRun = [state |-> "idle"]

\* The hook's refs as useRef creates them, lines 607-608.
DebounceIdle == debounce = [state |-> "idle"]

MemoIdle == memo = [state |-> "idle"]

\* None of the functions studied on their own is in use.
PureIdle == DedupIdle /\ QueryIdle /\ BatchIdle /\ DebounceIdle /\ MemoIdle

\* The components are not mounted and the service has not been called.
HostIdle ==
    /\ edits = 0
    /\ ReconInit
    /\ target = NoTarget
    /\ scanConfig = [k \in ConfigKeys |-> k \in ModuleSet]
    /\ SearchInit
    /\ searchParams = NoParams
    /\ run = IdleRun
    /\ cache = <<>>
    /\ now = TickMs
    /\ runsStarted = 0

Init ==
    /\ mounted \in {"ReconFramework", "OSINTSearch", "OSINTService"}
    /\ edits = 0
    /\ IF mounted = "ReconFramework"
       THEN ReconInit
       ELSE /\ ReconInit
            /\ target = NoTarget
            /\ scanConfig = [k \in ConfigKeys |-> k \in ModuleSet]
    /\ IF mounted = "OSINTSearch"
       THEN SearchInit
       ELSE /\ SearchInit
            /\ searchParams = NoParams
    /\ ServiceInit
    /\ mounted = "ReconFramework" => cache = <<>>
    /\ PureIdle

Next ==
    \/ StartFullRecon
    \/ ServiceResolves
    \/ ServiceRejects
    \/ SetTargetDomain
    \/ SetTargetCompany
    \/ ToggleScanConfig
    \/ HandleSearch
    \/ CallPerformReconnaissance
    \/ StaggerElapses
    \/ SearchResolves
    \/ SearchFails
    \/ BatchDelayElapses
    \/ Tick
    \/ SetSearchParams

Spec == Init /\ [][Next]_vars

(***************************************************************************)
(* The service called directly in a process whose earlier searches have    *)
(* filled the static cache up to, or to one entry below, the size the      *)
(* clean-up tolerates.                                                     *)
(***************************************************************************)
CacheInit ==
    /\ mounted = "OSINTService"
    /\ edits = 0
    /\ ReconInit
    /\ target = NoTarget
    /\ scanConfig = [k \in ConfigKeys |-> k \in ModuleSet]
    /\ SearchInit
    /\ searchParams = NoParams
    /\ run = IdleRun
    /\ cache \in {SubSeq(FullCache, 1, CACHE_MAX_SIZE - 1), FullCache}
    /\ now = TickMs
    /\ runsStarted = 0
    /\ PureIdle

CacheNext ==
    \/ CallPerformReconnaissance
    \/ StaggerElapses
    \/ SearchResolves
    \/ SearchFails
    \/ BatchDelayElapses
    \/ Tick

CacheSpec == CacheInit /\ [][CacheNext]_vars

(***************************************************************************)
(* The service called in a process in which an earlier invocation, made    *)
(* with another domain or with another company, has filled the static      *)
(* cache.                                                                  *)
(***************************************************************************)
\* The parameters of the earlier invocation.
EarlierParams ==
    { [company |-> "Example Corp", domain |-> "example.org", searchType |-> t] :
          t \in {"basic", "stealth"} }
    \cup { [company |-> "Other Corp", domain |-> "example.com", searchType |-> "stealth"] }

SessionInit ==
    /\ mounted = "OSINTService"
    /\ edits = 0
    /\ ReconInit
    /\ target = NoTarget
    /\ scanConfig = [k \in ConfigKeys |-> k \in ModuleSet]
    /\ SearchInit
    /\ searchParams = NoParams
    /\ run = IdleRun
    /\ cache \in { CacheAfter(<<>>, PriorQueries(p), p) : p \in EarlierParams }
    /\ now = TickMs
    /\ runsStarted = 0
    /\ PureIdle

SessionSpec == SessionInit /\ [][CacheNext]_vars

(***************************************************************************)
(* deduplicateResults on its own: applied to a list of raw profiles and    *)
(* then to the list it returned.  The profiles are ones the generator can  *)
(* produce for one person with and without email and linkedin link, with   *)
(* different titles, for a domain typed in lower case and with a capital,  *)
(* and one of another person.                                              *)
(***************************************************************************)
DedupProfiles ==
    LET p == PriorParams("basic")
        q == [p EXCEPT !.domain = "Example.com"]
    IN { MockProfile(p, "Alex Smith", "Senior Software Engineer", TRUE, TRUE, 70),
         MockProfile(p, "Alex Smith", "Sales Director", TRUE, FALSE, 90),
         MockProfile(q, "Alex Smith", "Sales Director", TRUE, TRUE, 90),
         MockProfile(p, "Alex Smith", "Sales Director", FALSE, TRUE, 90),
         MockProfile(p, "Alex Smith", "Sales Director", FALSE, FALSE, 90),
         MockProfile(p, "Jane Lee", "Data Analyst", TRUE, FALSE, 80) }

DedupInit ==
    /\ mounted = "OSINTService"
    /\ edits = 0
    /\ ReconInit
    /\ target = NoTarget
    /\ scanConfig = [k \in ConfigKeys |-> k \in ModuleSet]
    /\ SearchInit
    /\ searchParams = NoParams
    /\ run = IdleRun
    /\ cache = <<>>
    /\ now = TickMs
    /\ runsStarted = 0
    /\ dedupArg \in UNION {[1..n -> DedupProfiles] : n \in 0..MaxProfiles}
    /\ dedupRet = <<>>
    /\ QueryIdle /\ BatchIdle /\ DebounceIdle /\ MemoIdle

\* this.deduplicateResults(results), line 98
CallDeduplicateResults ==
    /\ dedupRet = <<>>
    /\ dedupRet' = <<DeduplicateResults(dedupArg)>>
    /\ UNCHANGED <<mounted, edits, reconVars, searchVars, serviceVars, dedupArg,
                   queryArg, queryRet, batchRun, debounce, memo>>

\* deduplicateResults applied to the list it returned.
CallDeduplicateResultsAgain ==
    /\ Len(dedupRet) = 1
    /\ dedupRet' = Append(dedupRet, DeduplicateResults(dedupRet[1]))
    /\ UNCHANGED <<mounted, edits, reconVars, searchVars, serviceVars, dedupArg,
                   queryArg, queryRet, batchRun, debounce, memo>>

DedupNext ==
    \/ CallDeduplicateResults
    \/ CallDeduplicateResultsAgain

DedupSpec == DedupInit /\ [][DedupNext]_vars

(***************************************************************************)
(* generateSearchQueries on its own: applied once for each search type to  *)
(* one company and domain.                                                 *)
(***************************************************************************)
QueryInit ==
    /\ mounted = "OSINTService"
    /\ HostIdle
    /\ queryArg \in [company : Companies, domain : Domains]
    /\ queryRet = [t \in SearchTypes |-> <<>>]
    /\ DedupIdle /\ BatchIdle /\ DebounceIdle /\ MemoIdle

\* this.generateSearchQueries(params), line 52
CallGenerateSearchQueries ==
    /\ \E t \in SearchTypes :
         /\ queryRet[t] = <<>>
         /\ \E q \in ShuffleArray(GenerateSearchQueries(
                        [company |-> queryArg.company, domain |-> queryArg.domain,
                         searchType |-> t])) :
              queryRet' = [queryRet EXCEPT ![t] = q]
    /\ UNCHANGED <<mounted, edits, reconVars, searchVars, serviceVars, dedupArg, dedupRet,
                   queryArg, batchRun, debounce, memo>>

QueryNext == CallGenerateSearchQueries

QuerySpec == QueryInit /\ [][QueryNext]_vars

(***************************************************************************)
(* batchProcessor (SocialEngineeringService.ts, 671-714), called once.     *)
(* batchRun holds the invocation:                                          *)
(*   state       "idle" (not called) or "called"                           *)
(*   batches     const batches                                             *)
(*   concurrent  the argument                                              *)
(*   results, processing, batchIndex   the locals of the executor          *)
(*   inFlight    the batches (by position) whose processor call has not    *)
(*               settled                                                   *)
(*   calls       the batches passed to processor, in order                 *)
(*   rejected    the batches whose processor call rejected                 *)
(*   promise     "pending", "resolved" or "rejected": the returned promise *)
(*   value       what it settled with                                      *)
(* The processor returns a promise, which the environment settles: with    *)
(* one result for each item of the batch, or with an error.                *)
(***************************************************************************)
\* The items list of n items.
Items(n) == [i \in 1..n |-> i]

\* What the processor's promise resolves with for a batch.
ProcessorOutput(b) == [i \in 1..Len(b) |-> [result |-> b[i]]]

\* What the processor's promise rejects with for a batch.
ProcessorError(b) == [error |-> b]

\* Lines 677-680: items.slice(i, i + batchSize) for i = 0, batchSize, ...
Slices(items, batchSize) ==
    [k \in 1..((Len(items) + batchSize - 1) \div batchSize) |->
        SubSeq(items, (k - 1) * batchSize + 1, Min({k * batchSize, Len(items)}))]

\* A start-up loop that starts every batch at once.
WorkersAll(concurrent, n) == n

\* Math.min(concurrent, batches.length), line 710
Workers(concurrent, n) == Min({concurrent, n})

\* A test that lets the promise resolve while calls are in flight.
MayResolveAlways(processing) == TRUE

\* processing === 0, line 689
MayResolve(processing) == processing = 0

\* resolve and reject settle the promise once; later calls have no effect.
Settle(r, how, v) ==
    IF r.promise = "pending" THEN [r EXCEPT !.promise = how, !.value = v] ELSE r

\* processBatch up to its await or its return, lines 687-699
ProcessBatch(r) ==
    IF r.batchIndex >= Len(r.batches)
    THEN IF MayResolve(r.processing) THEN Settle(r, "resolved", r.results) ELSE r
    ELSE [r EXCEPT !.batchIndex = @ + 1,
                   !.processing = @ + 1,
                   !.inFlight = @ \cup {r.batchIndex + 1},
                   !.calls = Append(@, r.batchIndex + 1)]

\* The start-up loop, lines 710-712
RECURSIVE StartWorkers(_, _)
StartWorkers(r, k) ==
    IF k = 0 THEN r ELSE StartWorkers(ProcessBatch(r), k - 1)

\* batchProcessor(items, processor, batchSize, concurrent) up to its return
CallBatchProcessor ==
    /\ mounted = "usePerformanceOptimization"
    /\ batchRun.state = "idle"
    /\ \E n \in 0..MaxItems, batchSize \in 1..MaxBatchSize, concurrent \in 1..MaxConcurrent :
         LET batches == Slices(Items(n), batchSize)
             r0 == [state |-> "called", batches |-> batches, concurrent |-> concurrent,
                    results |-> <<>>, processing |-> 0, batchIndex |-> 0,
                    inFlight |-> {}, calls |-> <<>>, rejected |-> {},
                    promise |-> "pending", value |-> <<>>]
         IN batchRun' = StartWorkers(r0, Workers(concurrent, Len(batches)))
    /\ UNCHANGED <<mounted, edits, reconVars, searchVars, serviceVars, dedupArg, dedupRet,
                   queryArg, queryRet, debounce, memo>>

\* A processor call resolves: lines 700-702 and the processBatch they call.
ProcessorResolves ==
    /\ batchRun.state = "called"
    /\ \E b \in batchRun.inFlight :
         batchRun' = ProcessBatch(
             [batchRun EXCEPT !.inFlight = @ \ {b},
                              !.results = @ \o ProcessorOutput(batchRun.batches[b]),
                              !.processing = @ - 1])
    /\ UNCHANGED <<mounted, edits, reconVars, searchVars, serviceVars, dedupArg, dedupRet,
                   queryArg, queryRet, debounce, memo>>

\* A processor call rejects: lines 703-706.
ProcessorRejects ==
    /\ batchRun.state = "called"
    /\ \E b \in batchRun.inFlight :
         batchRun' = Settle([batchRun EXCEPT !.inFlight = @ \ {b},
                                            !.rejected = @ \cup {b},
                                            !.processing = @ - 1],
                           "rejected", ProcessorError(batchRun.batches[b]))
    /\ UNCHANGED <<mounted, edits, reconVars, searchVars, serviceVars, dedupArg, dedupRet,
                   queryArg, queryRet, debounce, memo>>

BatchInit ==
    /\ mounted = "usePerformanceOptimization"
    /\ HostIdle
    /\ PureIdle

BatchNext ==
    \/ CallBatchProcessor
    \/ ProcessorResolves
    \/ ProcessorRejects

BatchSpec == BatchInit /\ [][BatchNext]_vars

\* The promise the processor returned is settled in the end.
BatchFairSpec == BatchSpec /\ WF_vars(ProcessorResolves \/ ProcessorRejects)

(***************************************************************************)
(* advancedDebounce (SocialEngineeringService.ts, 611-635): one function   *)
(* wrapped with DebounceDelay for each key of DebounceKeys, all with the   *)
(* same options, and the wrappers called at instants of a discrete clock.  *)
(* debounce holds:                                                         *)
(*   options   the options argument after the defaults of line 618         *)
(*   timers    debounceTimers.current: key -> timer id (0: no property)    *)
(*   pending   the timers set and neither fired nor cleared, each with the *)
(*             key and the args its callback closes over                   *)
(*   nextId    the id the next setTimeout returns                          *)
(*   clock     the current instant                                         *)
(*   calls     the calls of the wrappers so far: key and instant; the      *)
(*             args of a call are its position in this list                *)
(*   invoked   the invocations of func so far: key, args and instant       *)
(* A timer fires at the instant it is due, before any call made at that    *)
(* instant and before the clock moves on.  cleanup is not called.          *)
(***************************************************************************)
DebounceKeys == {"search", "filter"}

\* options as the caller may pass them; the first is the default of line 615.
DebounceOptions ==
    { [leading |-> FALSE, trailing |-> TRUE],
      [leading |-> TRUE, trailing |-> TRUE],
      [leading |-> TRUE, trailing |-> FALSE] }

\* A timer is due.
TimerDue == \E p \in debounce.pending : p.deadline = debounce.clock

\* A clearTimeout that leaves the timer running.
ClearTimeoutNoop(pending, id) == pending

\* clearTimeout(id), line 621
ClearTimeout(pending, id) == {p \in pending : p.id # id}

\* The wrapper returned by advancedDebounce is called, lines 617-634.
CallDebounced ==
    /\ mounted = "usePerformanceOptimization"
    /\ debounce.state = "mounted"
    /\ Len(debounce.calls) < MaxCalls
    /\ ~TimerDue
    /\ \E key \in DebounceKeys :
         LET d == debounce
             args == Len(d.calls) + 1
             cleared == IF d.timers[key] # 0
                        THEN ClearTimeout(d.pending, d.timers[key])
                        ELSE d.pending
             invoked == IF d.options.leading /\ d.timers[key] = 0
                        THEN Append(d.invoked, [key |-> key, args |-> args, time |-> d.clock])
                        ELSE d.invoked
         IN debounce' = [d EXCEPT
                !.calls = Append(@, [key |-> key, time |-> d.clock]),
                !.invoked = invoked,
                !.pending = cleared \cup {[id |-> d.nextId, key |-> key, args |-> args,
                                           deadline |-> d.clock + DebounceDelay]},
                !.timers[key] = d.nextId,
                !.nextId = @ + 1]
    /\ UNCHANGED <<mounted, edits, reconVars, searchVars, serviceVars, dedupArg, dedupRet,
                   queryArg, queryRet, batchRun, memo>>

\* The callback of a timer runs, lines 628-633.
TimerFires ==
    /\ debounce.state = "mounted"
    /\ \E p \in debounce.pending :
         /\ p.deadline = debounce.clock
         /\ debounce' = [debounce EXCEPT
                !.invoked = IF debounce.options.trailing
                            THEN Append(@, [key |-> p.key, args |-> p.args,
                                            time |-> debounce.clock])
                            ELSE @,
                !.timers[p.key] = 0,
                !.pending = @ \ {p}]
    /\ UNCHANGED <<mounted, edits, reconVars, searchVars, serviceVars, dedupArg, dedupRet,
                   queryArg, queryRet, batchRun, memo>>

\* Time passes.
AdvanceClock ==
    /\ debounce.state = "mounted"
    /\ debounce.clock < MaxClock
    /\ ~TimerDue
    /\ debounce' = [debounce EXCEPT !.clock = @ + 1]
    /\ UNCHANGED <<mounted, edits, reconVars, searchVars, serviceVars, dedupArg, dedupRet,
                   queryArg, queryRet, batchRun, memo>>

DebounceInit ==
    /\ mounted = "usePerformanceOptimization"
    /\ HostIdle
    /\ DedupIdle /\ QueryIdle /\ BatchIdle /\ MemoIdle
    /\ \E options \in DebounceOptions :
         debounce = [state |-> "mounted", options |-> options,
                     timers |-> [k \in DebounceKeys |-> 0], pending |-> {}, nextId |-> 1,
                     clock |-> 0, calls |-> <<>>, invoked |-> <<>>]

DebounceNext ==
    \/ CallDebounced
    \/ TimerFires
    \/ AdvanceClock

DebounceSpec == DebounceInit /\ [][DebounceNext]_vars

(***************************************************************************)
(* memoizeWithTTL (SocialEngineeringService.ts, 638-668): one function     *)
(* memoized with the default ttl, after earlier calls have put             *)
(* MEMO_MAX_SIZE entries, or one less, into memoCache.  memo holds:        *)
(*   cache    memoCache.current in insertion order: key, value, timestamp *)
(*   clock    Date.now()                                                   *)
(*   calls    the number of calls made in the behaviour                    *)
(*   ret      what the last call returned                                  *)
(* cleanup is not called.                                                  *)
(***************************************************************************)
\* ttl: number = 300000, line 641
MEMO_TTL == 300000

\* memoCache.current.size > 1000, line 658
MEMO_MAX_SIZE == 1000

\* .slice(0, 500), line 661
MEMO_EVICT_COUNT == 500

\* The instant at which the behaviours start.
MemoStart == 2 * MEMO_TTL

\* func(...args): the value computed for a key.
MemoValue(key) == [of |-> key]

\* keyGenerator(...args) of the earlier calls and of the calls of the
\* behaviour: a key that is in the cache and keys that are not.
EarlierKey(i) == "key " \o ToString(i)

MemoKeys == {EarlierKey(1), "new 1", "new 2", "new 3"}

\* memoCache after n earlier calls with n keys, the first stale of them made
\* at instant 0 and the others at MemoStart.
EarlierMemoCache(n, stale) ==
    [i \in 1..n |-> [key |-> EarlierKey(i), value |-> MemoValue(EarlierKey(i)),
                     timestamp |-> IF i <= stale THEN 0 ELSE MemoStart]]

\* memoCache.current.get(key): the position of the key's entry, 0 if none
MemoGet(c, key) ==
    IF \E i \in 1..Len(c) : c[i].key = key
    THEN CHOOSE i \in 1..Len(c) : c[i].key = key
    ELSE 0

\* memoCache.current.set(key, entry): a Map keeps the position of a key it has
MemoSet(c, key, entry) ==
    IF MemoGet(c, key) # 0 THEN [c EXCEPT ![MemoGet(c, key)] = entry] ELSE Append(c, entry)

\* Lines 658-664: the entries older than ttl, at most the first 500 of
\* them, are deleted when the size exceeds 1000.
MemoCleanUp(c, time, ttl) ==
    IF Len(c) > MEMO_MAX_SIZE
    THEN LET old == {i \in 1..Len(c) : time - c[i].timestamp > ttl}
             gone == {i \in old : Cardinality({j \in old : j < i}) < MEMO_EVICT_COUNT}
         IN SelectSeq([i \in 1..Len(c) |-> IF i \in gone THEN [key |-> ""] ELSE c[i]],
                      LAMBDA e : e.key # "")
    ELSE c

\* The memoized function is called, lines 643-667.
CallMemoized ==
    /\ mounted = "usePerformanceOptimization"
    /\ memo.state = "mounted"
    /\ memo.calls < MaxMemoCalls
    /\ \E key \in MemoKeys :
         LET pos == MemoGet(memo.cache, key) IN
         IF pos # 0 /\ memo.clock - memo.cache[pos].timestamp < MEMO_TTL
         THEN memo' = [memo EXCEPT !.calls = @ + 1, !.ret = memo.cache[pos].value]
         ELSE memo' = [memo EXCEPT
                  !.calls = @ + 1,
                  !.ret = MemoValue(key),
                  !.cache = MemoCleanUp(
                               MemoSet(@, key, [key |-> key, value |-> MemoValue(key),
                                                timestamp |-> memo.clock]),
                               memo.clock, MEMO_TTL)]
    /\ UNCHANGED <<mounted, edits, reconVars, searchVars, serviceVars, dedupArg, dedupRet,
                   queryArg, queryRet, batchRun, debounce>>

\* Date.now() moves on by half the ttl.
MemoTick ==
    /\ memo.state = "mounted"
    /\ memo.clock < MemoStart + MaxMemoTicks * (MEMO_TTL \div 2)
    /\ memo' = [memo EXCEPT !.clock = @ + MEMO_TTL \div 2]
    /\ UNCHANGED <<mounted, edits, reconVars, searchVars, serviceVars, dedupArg, dedupRet,
                   queryArg, queryRet, batchRun, debounce>>

MemoInit ==
    /\ mounted = "usePerformanceOptimization"
    /\ HostIdle
    /\ DedupIdle /\ QueryIdle /\ BatchIdle /\ DebounceIdle
    /\ \E c \in { EarlierMemoCache(MEMO_MAX_SIZE - 1, 0),
                   EarlierMemoCache(MEMO_MAX_SIZE, 0),
                   EarlierMemoCache(MEMO_MAX_SIZE, MEMO_EVICT_COUNT + 1),
                   EarlierMemoCache(MEMO_MAX_SIZE, 1) } :
         memo = [state |-> "mounted", cache |-> c, clock |-> MemoStart, calls |-> 0,
                 ret |-> MemoValue("")]

MemoNext ==
    \/ CallMemoized
    \/ MemoTick

MemoSpec == MemoInit /\ [][MemoNext]_vars

(***************************************************************************)
(* Fairness.  The services and the searches are awaited promises and the   *)
(* sleeps are timers: an awaited promise eventually settles and a timer    *)
(* eventually fires.  Nothing is assumed about the user or the clock.      *)
(*                                                                         *)
(* For the three kinds of step of performReconnaissance the condition is   *)
(* written out: WF_vars(A) is []<>~ENABLED <<A>>_vars \/ []<><<A>>_vars,   *)
(* and the step of a pending timer or search is enabled, and changes run,  *)
(* exactly while the timer or the search is pending.                       *)
(***************************************************************************)
\* A task is in its stagger sleep.
StaggerPending ==
    /\ mounted \in {"OSINTSearch", "OSINTService"}
    /\ \E i \in 1..Len(run.tasks) : run.tasks[i].st = "stagger" /\ StaggerDelay(i - 1) > 0

\* A task awaits performSearch.
SearchPending ==
    /\ mounted \in {"OSINTSearch", "OSINTService"}
    /\ \E i \in 1..Len(run.tasks) : run.tasks[i].st = "search"

\* The batch loop is in its inter-batch sleep.
BatchDelayPending ==
    /\ mounted \in {"OSINTSearch", "OSINTService"}
    /\ run.state = "delay"

FairSpec ==
    /\ Spec
    /\ WF_vars(ServiceResolves \/ ServiceRejects)
    /\ ([]<>(~StaggerPending) \/ []<><<StaggerElapses>>_vars)
    /\ ([]<>(~SearchPending) \/ []<><<SearchResolves \/ SearchFails>>_vars)
    /\ ([]<>(~BatchDelayPending) \/ []<><<BatchDelayElapses>>_vars)

(***************************************************************************)
(* Properties.                                                             *)
(***************************************************************************)
\* The modules a configuration selects: the module flags that are set.
SelectedModules(cfg) == {m \in ModuleSet : cfg[m]}

Terminal == {"COMPLETED", "FAILED"}

\* The positions of the timeline entries of a module with one of the statuses.
EntriesOf(tl, name, statuses) ==
    {i \in 1..Len(tl) : tl[i].module = name /\ tl[i].status \in statuses}

\* The statuses of the timeline entries of a module, in timeline order.
StatusesOf(tl, name) ==
    LET es == SelectSeq(tl, LAMBDA e : e.module = name)
    IN [i \in 1..Len(es) |-> es[i].status]

\* The last startFullRecon invocation that started a run has returned.
RunEnded == pc = "idle" /\ lastEnd \in {"completed", "caught"}

IsFrameworkCompleted(e) == e.module = "Framework" /\ e.status = "COMPLETED"

\* C1: a startFullRecon run that has ended, for a non-empty target and k
\* selected modules, leaves a timeline with exactly one COMPLETED or FAILED
\* entry per selected module and none for the others (k in all), exactly one
\* STARTED entry, which is the first entry and names 'Framework', and exactly
\* one COMPLETED entry of 'Framework', which is the last entry.
C1_TimelineOfEndedRun ==
    RunEnded =>
        /\ runTarget.domain # "" /\ runTarget.company # ""
        /\ \A m \in ModuleSet :
             Cardinality(EntriesOf(timeline, TimelineName(m), Terminal))
               = IF runConfig[m] THEN 1 ELSE 0
        /\ Cardinality({i \in 1..Len(timeline) :
                          timeline[i].module # "Framework" /\ timeline[i].status \in Terminal})
             = Cardinality(SelectedModules(runConfig))
        /\ {i \in 1..Len(timeline) : timeline[i].status = "STARTED"} = {1}
        /\ timeline[1].module = "Framework"
        /\ EntriesOf(timeline, "Framework", {"COMPLETED"}) = {Len(timeline)}

\* A run with three selected modules has ended normally.
C1_Witness ==
    /\ lastEnd = "completed"
    /\ Cardinality(SelectedModules(runConfig)) = 3
    /\ Len(timeline) = 8

\* C2: when the awaited service of the current module rejects, the timeline
\* grows by a FAILED entry of that module carrying the error's message,
\* completedModules is advanced by one, and the handler goes on: to the
\* RUNNING entry and the await of the next selected module if there is one,
\* otherwise to the 'Framework' COMPLETED entry; the error of a module is
\* never the one the top-level catch block logs.  A run that has ended has
\* run every selected module and ends with 'Framework' COMPLETED.
C2_ModuleFailureIsContained ==
    /\ [][ServiceRejects =>
            LET m == current
                n == Len(timeline)
                later == {j \in (ModuleIndex(m) + 1)..Len(ModuleIds) : runConfig[ModuleIds[j]]}
            IN /\ Len(timeline') = n + 2
               /\ SubSeq(timeline', 1, n) = timeline
               /\ timeline'[n + 1] = [module |-> TimelineName(m), status |-> "FAILED",
                                      data |-> [kind |-> "error",
                                                error |-> ServiceErrorMessage(m)]]
               /\ completedModules' = completedModules + 1
               /\ consoleError' \notin {ServiceErrorMessage(x) : x \in ModuleSet}
               /\ IF later # {}
                  THEN /\ pc' = "await"
                       /\ current' = ModuleIds[Min(later)]
                       /\ timeline'[n + 2] = [module |-> TimelineName(current'),
                                              status |-> "RUNNING", data |-> NullData]
                  ELSE /\ pc' = "idle"
                       /\ timeline'[n + 2] = [module |-> "Framework", status |-> "COMPLETED",
                                              data |-> [kind |-> "done",
                                                        modulesRun |-> completedModules + 1]]
         ]_vars
    /\ [](RunEnded =>
            /\ \A m \in SelectedModules(runConfig) :
                 EntriesOf(timeline, TimelineName(m), {"RUNNING"}) # {}
            /\ IsFrameworkCompleted(timeline[Len(timeline)])
            /\ timeline[Len(timeline)].data.modulesRun = Cardinality(SelectedModules(runConfig))
            /\ completedModules = Cardinality(SelectedModules(runConfig))
            /\ consoleError \in {"", ToastError})

\* A run has ended normally in which a module failed and a later one completed.
C2_Witness ==
    /\ lastEnd = "completed"
    /\ \E i \in 1..Len(timeline) :
         /\ timeline[i].status = "FAILED"
         /\ \E j \in (i + 1)..Len(timeline) :
              timeline[j].status = "COMPLETED" /\ timeline[j].module # "Framework"

\* C3: when the search of a task fails, the task ends with no profiles and
\* is counted in processed; the other tasks of the batch are left as they
\* are; the failure itself does not reject the task (only an onProgress
\* function that throws twice does); the results pushed or returned when the
\* batch is complete are those of the other queries.  performReconnaissance
\* rejects only if an onProgress invocation threw; when it resolves, every
\* batch has run, and every query is counted once unless onProgress threw.
C3_SearchFailureIsIsolated ==
    /\ [][SearchFails =>
            \E i \in 1..Len(run.tasks) :
               LET othersOut == Flat([j \in 1..Len(run.tasks) |->
                                        IF j = i THEN <<>> ELSE run.tasks[j].out])
               IN /\ run.tasks[i].st = "search"
                  /\ run'.tasks[i].st \in {"fulfilled", "rejected"}
                  /\ run'.tasks[i].out = <<>>
                  /\ run'.processed > run.processed
                  /\ \A j \in 1..Len(run.tasks) : j # i => run'.tasks[j] = run.tasks[j]
                  /\ run'.tasks[i].st = "rejected"
                       => Len(run'.progressLog) = Len(run.progressLog) + 2
                  /\ run'.state = "rejected" /\ run.state # "rejected"
                       => Len(run'.progressLog) = Len(run.progressLog) + 2
                  /\ run'.state = "batch" => run'.results = run.results
                  /\ run'.state = "delay" => run'.results = run.results \o othersOut
                  /\ run'.state = "resolved"
                       => /\ run'.returned.data
                               = EnhanceProfiles(DeduplicateResults(run.results \o othersOut),
                                                 run.params)
                          /\ run'.returned.processed = run'.processed
         ]_vars
    /\ [](/\ run.state = "rejected" => run.cbThrew
          /\ run.state = "resolved" =>
               /\ run.batchIndex = NumBatches(run) - 1
               /\ ~run.cbThrew => run.processed = Total(run))

\* A batch has ended in which one search failed and another found profiles,
\* and the loop is about to start the next batch.
C3_Witness ==
    /\ run.state = "delay"
    /\ ~run.cbThrew
    /\ \E i, j \in 1..Len(run.tasks) : run.tasks[i].out = <<>> /\ run.tasks[j].out # <<>>

\* C4: a startFullRecon invocation with an empty domain or company adds no
\* timeline entry, awaits no service and leaves isScanning, progress,
\* activeModule and the stored results as they are; a handleSearch
\* invocation with an empty company or domain starts no
\* performReconnaissance and leaves isSearching, results and searchStats as
\* they are.
C4_NoRunWithoutTarget ==
    /\ [][(StartFullRecon /\ (target.domain = "" \/ target.company = "")) =>
            /\ UNCHANGED <<timeline, isScanning, progress, results, activeModule>>
            /\ pc' = "idle"]_vars
    /\ [][(HandleSearch /\ (searchParams.company = "" \/ searchParams.domain = "")) =>
            UNCHANGED <<isSearching, searchResults, searchStats, realTimeProgress,
                        run, cache, runsStarted>>]_vars

\* After a run that ended, a click with an empty target field was refused:
\* the timeline of the run is still there.
C4_Witness ==
    /\ lastEnd = "missing"
    /\ toastShown = "Missing Target Information"
    /\ timeline # <<>>
    /\ ~isScanning

\* C5: every snapshot passed to onProgress, and the returned result, has
\* processed <= total.
C5_ProcessedWithinTotal ==
    /\ \A i \in 1..Len(run.progressLog) :
         run.progressLog[i].processed <= run.progressLog[i].total
    /\ run.returned.kind = "results" => run.returned.processed <= run.returned.total

\* C6: the timeline entries of each module are: none (not selected, or not
\* yet started), or one RUNNING entry (exactly while its service is
\* awaited), or one RUNNING entry followed by one COMPLETED or one FAILED
\* entry; only selected modules have entries.
C6_ModuleLifecycle ==
    \A m \in ModuleSet :
       LET st == StatusesOf(timeline, TimelineName(m)) IN
       /\ st \in {<<>>, <<"RUNNING">>, <<"RUNNING", "COMPLETED">>, <<"RUNNING", "FAILED">>}
       /\ st = <<"RUNNING">> <=> (pc = "await" /\ current = m)
       /\ st # <<>> => runConfig[m]

\* In the middle of a run: one module has failed, one is running and one
\* selected module has not started.
C6_Witness ==
    /\ pc = "await"
    /\ \E m1, m2, m3 \in ModuleSet :
         /\ StatusesOf(timeline, TimelineName(m1)) = <<"RUNNING", "FAILED">>
         /\ StatusesOf(timeline, TimelineName(m2)) = <<"RUNNING">>
         /\ StatusesOf(timeline, TimelineName(m3)) = <<>>
         /\ runConfig[m3]

\* C7: when a startFullRecon run has ended, normally or through the catch
\* block, isScanning is false and activeModule is ''; when a handleSearch
\* invocation has ended, normally or through the catch block, isSearching is
\* false.
C7_IdleWhenEnded ==
    /\ RunEnded => ~isScanning /\ activeModule = ""
    /\ searchEnd \in {"completed", "caught"} => ~isSearching

\* A run has ended through the catch block.
C7_Witness ==
    /\ lastEnd = "caught"
    /\ consoleError = ToastError
    /\ toastShown = "Reconnaissance Failed"

\* C8: once isScanning is true, the run eventually ends with the 'Framework'
\* COMPLETED entry last and isScanning false; a performReconnaissance
\* invocation that is awaiting a batch or the inter-batch sleep eventually
\* settles.
C8_RunsFinish ==
    /\ isScanning ~> (/\ ~isScanning
                      /\ timeline # <<>>
                      /\ IsFrameworkCompleted(timeline[Len(timeline)]))
    /\ (run.state \in {"batch", "delay"}) ~> (run.state \in {"resolved", "rejected"})

\* A handleSearch invocation whose run had two batches has ended normally.
C8_Witness ==
    /\ mounted = "OSINTSearch"
    /\ searchEnd = "completed"
    /\ run.state = "resolved"
    /\ run.batchIndex = 1

\* C9: after completedModules of the k selected modules of the run have
\* finished, progress is completedModules / k * 100, with k the number of
\* module flags set; when the run has ended it is 100.
C9_ProgressIsShareOfSelectedModules ==
    /\ (pc = "await" /\ completedModules >= 1) =>
          progress = Pct(completedModules * 100, Cardinality(SelectedModules(runConfig)))
    /\ RunEnded => progress = Hundred

\* C10: progress never exceeds 100, is 100 when a run has ended, and does
\* not decrease while a run is under way.
C10_ProgressRisesToHundred ==
    /\ [](/\ PctLeq(progress, Hundred)
          /\ RunEnded => progress = Hundred)
    /\ [][isScanning => PctLeq(progress, progress')]_vars

\* A run with all five modules selected and aggressive off has ended normally.
C10_Witness ==
    /\ lastEnd = "completed"
    /\ SelectedModules(runConfig) = ModuleSet
    /\ ~runConfig["aggressive"]
    /\ runTarget = [domain |-> "example.com", company |-> "Example Corp"]
    /\ progress = Hundred

\* C11: in the sequence of snapshots one performReconnaissance run passes to
\* onProgress, the processed value of a snapshot is never smaller than that
\* of the snapshot before it, in whatever order the searches of a batch end.
C11_ProcessedNeverDecreases ==
    \A i \in 1..(Len(run.progressLog) - 1) :
       run.progressLog[i].processed <= run.progressLog[i + 1].processed

\* The second task of a batch has ended before the first, whose search is
\* still awaited, and onProgress has been invoked twice.
C11_Witness ==
    /\ Len(run.tasks) = 2
    /\ run.tasks[1].st = "search"
    /\ run.tasks[2].st = "fulfilled"
    /\ Len(run.progressLog) >= 2

\* C12: onProgress is invoked once per generated query: the i-th snapshot of
\* a run reports processed = i, a run never makes more invocations than it
\* has queries, and a run that resolved has made exactly total invocations.
C12_OneCallbackPerQuery ==
    /\ \A i \in 1..Len(run.progressLog) : run.progressLog[i].processed = i
    /\ Len(run.progressLog) <= Total(run)
    /\ (run.state = "resolved" /\ run.callback # "none") =>
          Len(run.progressLog) = Total(run)

\* The profiles the run has collected: those pushed for the batches that are
\* complete and, while a batch is awaited, those of its tasks that have ended.
Collected(r) ==
    IF r.state = "batch"
    THEN r.results \o Flat([i \in 1..Len(r.tasks) |->
                              IF r.tasks[i].st = "fulfilled" THEN r.tasks[i].out ELSE <<>>])
    ELSE r.results

\* C13: as long as no onProgress invocation threw, the found value of the
\* latest snapshot passed to onProgress is the number of distinct profiles
\* (by identity key) among the results of all the queries completed so far
\* in the run.
C13_FoundIsDistinctCollected ==
    (Len(run.progressLog) > 0 /\ ~run.cbThrew) =>
       run.progressLog[Len(run.progressLog)].found
          = Len(DeduplicateResults(Collected(run)))

\* C14: no two profiles of the data performReconnaissance returned have the
\* same identity key.
C14_ReturnedDataHasDistinctKeys ==
    run.returned.kind = "results" =>
       \A i, j \in 1..Len(run.returned.data) :
          IdentityKey(run.returned.data[i]) = IdentityKey(run.returned.data[j]) => i = j

\* The tasks of the run that have not settled.
InFlight(r) == {i \in 1..Len(r.tasks) : r.tasks[i].st \in {"stagger", "search"}}

\* C15: at most BatchSize searches of a run are in flight; the tasks that
\* exist are those of the queries of the current batch, in the order of
\* createBatches; the loop is in its inter-batch sleep only when every task
\* of the batch is fulfilled and the batch's results are the tail of
\* results; and the next batch is started only from that sleep, with no task
\* of the batch before it in flight.
C15_BatchesAreSequential ==
    /\ [](/\ Cardinality(InFlight(run)) <= BatchSize
          /\ run.state \in {"batch", "delay"} =>
                /\ run.batchIndex < NumBatches(run)
                /\ [i \in 1..Len(run.tasks) |-> run.tasks[i].query]
                      = CreateBatches(run.queries, BatchSize)[run.batchIndex + 1]
          /\ run.state = "delay" =>
                LET outs == Flat([i \in 1..Len(run.tasks) |-> run.tasks[i].out]) IN
                /\ InFlight(run) = {}
                /\ Len(run.results) >= Len(outs)
                /\ SubSeq(run.results, Len(run.results) - Len(outs) + 1, Len(run.results))
                      = outs)
    /\ [][(run.state \in {"batch", "delay"} /\ run'.batchIndex # run.batchIndex) =>
            /\ run.state = "delay"
            /\ InFlight(run) = {}
            /\ run'.batchIndex = run.batchIndex + 1
            /\ Len(run'.results) >= Len(run.results)
            /\ SubSeq(run'.results, 1, Len(run.results)) = run.results]_vars

\* The second batch of a run is in flight after the first, whose results
\* were pushed, has ended.
C15_Witness ==
    /\ run.state = "batch"
    /\ run.batchIndex = 1
    /\ InFlight(run) # {}
    /\ run.results # <<>>

\* C16: between the turns of the event loop the cache holds at most
\* CACHE_MAX_SIZE entries; a step that changes the cache inserts one entry at
\* the end and, when that takes the cache past CACHE_MAX_SIZE, removes
\* exactly the CACHE_EVICT_COUNT entries inserted first, keeping the others
\* in order and the new entry last.
C16_CacheIsBounded ==
    /\ [](Len(cache) <= CACHE_MAX_SIZE)
    /\ [][cache' # cache =>
            LET new == cache'[Len(cache')] IN
            /\ ~CacheHas(cache, new.key)
            /\ IF Len(cache) < CACHE_MAX_SIZE
               THEN cache' = Append(cache, new)
               ELSE /\ Len(cache') = CACHE_MAX_SIZE + 1 - CACHE_EVICT_COUNT
                    /\ cache' = SubSeq(cache, CACHE_EVICT_COUNT + 1, Len(cache)) \o <<new>>
         ]_vars

\* The clean-up has run: the oldest remaining entry is the one inserted
\* after the CACHE_EVICT_COUNT oldest, and the newest is a query of the run.
C16_Witness ==
    /\ Len(cache) = CACHE_MAX_SIZE + 1 - CACHE_EVICT_COUNT
    /\ cache[1] = FullCache[CACHE_EVICT_COUNT + 1]
    /\ \E i \in 1..Len(run.queries) : cache[Len(cache)].key.query = run.queries[i]

IsPrefix(s, t) == Len(s) <= Len(t) /\ SubSeq(t, 1, Len(s)) = s

\* C17: every step taken while a startFullRecon run is under way leaves the
\* timeline as it is or appends entries to it: the timeline before the step
\* is a prefix of the timeline after it.
C17_TimelineIsAppendOnly ==
    [][pc = "await" => IsPrefix(timeline, timeline')]_vars

\* A run is at its third module: the entries of the two before it are in the
\* order in which they were appended.
C17_Witness ==
    /\ pc = "await"
    /\ Len(timeline) = 6
    /\ [i \in 1..6 |-> timeline[i].status]
          = <<"STARTED", "RUNNING", "FAILED", "RUNNING", "COMPLETED", "RUNNING">>

\* C18: every service call of a startFullRecon run is made with the domain
\* and company the target had when the run started (the target recorded in
\* the STARTED entry) and with the options of the configuration of that
\* moment; the target and configuration the run works with are those of the
\* click and no step taken during the run, an edit included, changes them.
C18_TargetFixedAtStart ==
    /\ [](\A i \in 1..Len(serviceCalls) :
            /\ timeline # <<>>
            /\ timeline[1].status = "STARTED"
            /\ serviceCalls[i] = ServiceCall(serviceCalls[i].module,
                                             timeline[1].data.target, runConfig))
    /\ [][(StartFullRecon /\ ~TargetMissing(target)) =>
            (runTarget' = target /\ runConfig' = scanConfig)]_vars
    /\ [][pc = "await" => (runTarget' = runTarget /\ runConfig' = runConfig)]_vars

\* During a run the domain field has been edited, and the run has called a
\* second service with the domain of the start.
C18_Witness ==
    /\ pc = "await"
    /\ Len(serviceCalls) >= 2
    /\ target.domain # runTarget.domain
    /\ serviceCalls[Len(serviceCalls)].domain = timeline[1].data.target.domain

\* C19: deduplicateResults applied to a list it returned returns that list:
\* the same profiles in the same order.
C19_DeduplicateIsIdempotent ==
    Len(dedupRet) = 2 => dedupRet[2] = dedupRet[1]

\* The first application dropped a profile and kept two; the second was
\* applied to what the first returned.
C19_Witness ==
    /\ Len(dedupRet) = 2
    /\ Len(dedupArg) = 3
    /\ Len(dedupRet[1]) = 2

\* The positions of a list that hold the first profile of their identity key.
FirstPositions(list) ==
    {i \in 1..Len(list) :
        \A j \in 1..(i - 1) : IdentityKey(list[j]) # IdentityKey(list[i])}

\* C20: the list deduplicateResults returns holds, in the order of the
\* input, exactly the profiles at the positions of the input that are the
\* first of their identity key; it is never longer than the input.
C20_DeduplicateKeepsFirstOccurrences ==
    Len(dedupRet) >= 1 =>
       LET P == FirstPositions(dedupArg)
           ret == dedupRet[1]
       IN /\ Len(ret) = Cardinality(P)
          /\ Len(ret) <= Len(dedupArg)
          /\ \A k \in 1..Len(ret) :
                \E i \in P : /\ Cardinality({j \in P : j < i}) = k - 1
                             /\ ret[k] = dedupArg[i]

\* The profile in the middle of three was dropped: it has the key of the
\* first (the email differs in case only) and differs from it otherwise.
C20_Witness ==
    /\ Len(dedupRet) >= 1
    /\ Len(dedupArg) = 3
    /\ dedupArg[2] # dedupArg[1]
    /\ dedupArg[2].email # dedupArg[1].email
    /\ dedupRet[1] = <<dedupArg[1], dedupArg[3]>>

\* The queries of a returned list, as a set.
QuerySet(q) == {q[i] : i \in 1..Len(q)}

\* C21: for one company and domain, every query generated for 'basic' is
\* generated for 'deep' and every query generated for 'deep' is generated
\* for 'stealth', so the number of queries does not decrease from 'basic'
\* to 'deep' to 'stealth'.
C21_QueriesGrowWithSearchType ==
    \A s, t \in SearchTypes :
        /\ <<s, t>> \in {<<"basic", "deep">>, <<"deep", "stealth">>, <<"basic", "stealth">>}
        /\ queryRet[s] # <<>>
        /\ queryRet[t] # <<>>
        => /\ QuerySet(queryRet[s]) \subseteq QuerySet(queryRet[t])
           /\ Len(queryRet[s]) <= Len(queryRet[t])

\* The three lists have been generated for a company and a domain, and
\* each is longer than the one before.
C21_Witness ==
    /\ queryArg.company # ""
    /\ queryArg.domain # ""
    /\ Len(queryRet["basic"]) >= 1
    /\ Len(queryRet["deep"]) > Len(queryRet["basic"])
    /\ Len(queryRet["stealth"]) > Len(queryRet["deep"])

\* C22: at every moment the number of processor calls in flight lies
\* between 0 and min(concurrent, number of batches), whatever the order in
\* which the calls settle; the counter processing is that number.
C22_InFlightIsBounded ==
    batchRun.state = "called" =>
        /\ Cardinality(batchRun.inFlight) <= Min({batchRun.concurrent, Len(batchRun.batches)})
        /\ batchRun.processing = Cardinality(batchRun.inFlight)

\* The bound is reached again after a call has settled, with a batch
\* still waiting to be started.
C22_Witness ==
    /\ batchRun.state = "called"
    /\ batchRun.concurrent = 2
    /\ Len(batchRun.batches) = 4
    /\ batchRun.batchIndex = 3
    /\ Cardinality(batchRun.inFlight) = 2

\* C23: when every processor call resolves, the promise batchProcessor
\* returned is resolved in the end, for every items list (the empty one
\* included), every batchSize >= 1 and every concurrent >= 1.
C23_PromiseEventuallyResolves ==
    (batchRun.state = "called")
        ~> (batchRun.state = "called"
            /\ (batchRun.promise = "resolved" \/ batchRun.rejected # {}))

\* The items of a list of batches.
BatchItems(batches) ==
    UNION {{batches[b][i] : i \in 1..Len(batches[b])} : b \in 1..Len(batches)}

\* C24: as long as no processor call has rejected, every batch is passed to
\* processor at most once and in order; the promise is not rejected, and if
\* it is resolved then no call is in flight, every batch has been passed to
\* processor, and the value holds the result of every item exactly once.
C24_EveryBatchOnceAndAllResults ==
    batchRun.state = "called" /\ batchRun.rejected = {} =>
        /\ batchRun.calls = [k \in 1..batchRun.batchIndex |-> k]
        /\ batchRun.promise # "rejected"
        /\ batchRun.promise = "resolved" =>
             /\ batchRun.inFlight = {}
             /\ Len(batchRun.calls) = Len(batchRun.batches)
             /\ \A item \in BatchItems(batchRun.batches) :
                  Cardinality({k \in 1..Len(batchRun.value) :
                                 batchRun.value[k] = [result |-> item]}) = 1
             /\ Len(batchRun.value) = Cardinality(BatchItems(batchRun.batches))

\* The promise is resolved after three batches ran two at a time and the
\* second one resolved before the first.
C24_Witness ==
    /\ batchRun.state = "called"
    /\ batchRun.promise = "resolved"
    /\ batchRun.rejected = {}
    /\ batchRun.concurrent = 2
    /\ Len(batchRun.batches) = 3
    /\ batchRun.value[1] = [result |-> batchRun.batches[2][1]]

\* C25: once a processor call has rejected and the promise is rejected, no
\* further batch is passed to processor.
C25_NoBatchStartedAfterRejection ==
    [][batchRun.state = "called" /\ batchRun.promise = "rejected"
       => batchRun'.calls = batchRun.calls]_vars

\* The number of invocations of func with the args of call i.
InvocationsOf(i) ==
    Cardinality({k \in 1..Len(debounce.invoked) : debounce.invoked[k].args = i})

\* Call i was followed, less than the delay later, by a call on its key.
Superseded(i) ==
    \E j \in (i + 1)..Len(debounce.calls) :
        /\ debounce.calls[j].key = debounce.calls[i].key
        /\ debounce.calls[j].time < debounce.calls[i].time + DebounceDelay

\* C26: with the default options (trailing only), func is invoked for a
\* call exactly when no call on the same key came less than the delay after
\* it, once, at the instant one delay after that call, and with that call's
\* args and key: so a burst of calls on one key, each less than the delay
\* after the one before, invokes func once, one delay after its last call
\* and with the args of its last call.  At most one timer is pending for a
\* key at any time.
C26_BurstInvokesOnceAfterLastCall ==
    debounce.state = "mounted" /\ debounce.options = [leading |-> FALSE, trailing |-> TRUE] =>
        /\ \A key \in DebounceKeys :
              Cardinality({p \in debounce.pending : p.key = key}) <= 1
        /\ \A i \in 1..Len(debounce.calls) :
              /\ Superseded(i) => InvocationsOf(i) = 0
              /\ InvocationsOf(i) <= 1
              /\ ~Superseded(i) /\ debounce.clock > debounce.calls[i].time + DebounceDelay
                    => InvocationsOf(i) = 1
        /\ \A k \in 1..Len(debounce.invoked) :
              LET v == debounce.invoked[k] IN
              /\ v.args \in 1..Len(debounce.calls)
              /\ v.key = debounce.calls[v.args].key
              /\ v.time = debounce.calls[v.args].time + DebounceDelay

\* A burst of three calls on one key at successive instants has led to one
\* invocation, with the args of the third call, one delay after it.
C26_Witness ==
    /\ debounce.state = "mounted"
    /\ debounce.options = [leading |-> FALSE, trailing |-> TRUE]
    /\ Len(debounce.calls) = 3
    /\ \A i \in 1..3 : debounce.calls[i] = [key |-> "search", time |-> i]
    /\ debounce.invoked = <<[key |-> "search", args |-> 3, time |-> 3 + DebounceDelay]>>
    /\ debounce.clock > 3 + DebounceDelay

\* C27: after any sequence of calls, once a call has returned memoCache
\* holds at most 1000 entries.
C27_MemoCacheIsBounded ==
    memo.state = "mounted" => Len(memo.cache) <= MEMO_MAX_SIZE

\* Task i of the batch makes its searchWithAdaptiveRetry call in this step.
NewlyCalled(i) ==
    /\ run'.tasks[i].calledAt # -1
    /\ \/ runsStarted' # runsStarted
       \/ run'.batchIndex # run.batchIndex
       \/ i > Len(run.tasks)
       \/ run.tasks[i].calledAt = -1

\* C28: searchWithAdaptiveRetry never returns a cached result that was
\* stored CACHE_TTL or more before the call; it returns from the cache,
\* without calling performSearch, exactly when the cache holds an entry for
\* the query, the search type and the TTL window of the call; and when the
\* search fails the cache is left as it was.
C28_CacheServesOnlyItsWindow ==
    /\ [](\A i \in 1..Len(run.tasks) :
            run.tasks[i].via = "cache" =>
                /\ run.tasks[i].served <= run.tasks[i].calledAt
                /\ run.tasks[i].calledAt - run.tasks[i].served < CACHE_TTL)
    /\ [][/\ \A i \in 1..Len(run'.tasks) :
               NewlyCalled(i) =>
                   LET key == CacheKey(run'.tasks[i].query, run'.params.searchType, now) IN
                   /\ run'.tasks[i].calledAt = now
                   /\ CacheHas(cache, key) <=> run'.tasks[i].via = "cache"
                   /\ ~CacheHas(cache, key) <=> run'.tasks[i].st = "search"
                   /\ CacheHas(cache, key) => run'.tasks[i].served = StoredAt(cache, key)
                   /\ cache' = cache
          /\ \A i \in 1..Len(run.tasks) :
               /\ run.state = "batch"
               /\ run.tasks[i].st = "search"
               /\ i <= Len(run'.tasks)
               /\ run'.tasks[i].via = "catch"
               => cache' = cache]_vars

\* A run has resolved with profiles, in which a call was answered from the
\* cache with an entry stored half a TTL before the call.
C28_Witness ==
    /\ run.state = "resolved"
    /\ \E i \in 1..Len(run.tasks) :
         /\ run.tasks[i].via = "cache"
         /\ run.tasks[i].calledAt - run.tasks[i].served = TickMs
    /\ Len(run.results) > 0

\* C29: every profile in the data returned by performReconnaissance(params)
\* has the company of params and an email address in the domain of params,
\* whatever invocations with other parameters came before in the process.
C29_ReturnedProfilesMatchParams ==
    run.state = "resolved" =>
        \A k \in 1..Len(run.returned.data) :
            /\ run.returned.data[k].company = run.params.company
            /\ run.returned.data[k].email[2] = run.params.domain

====
